---- MODULE Spec2Model ----
(***************************************************************************)
(* The encoding detection and fallback decoding engine of inspector        *)
(* (src/inspector/main.py, lines 19-142): _is_likely_text,                 *)
(* _is_likely_misencoded_asian_text, _is_likely_misencoded_cross_asian and *)
(* decode_with_fallback, driven by the parametrised tests of               *)
(* src/tests/test_main.py.                                                 *)
(*                                                                         *)
(* A byte buffer is a sequence of integers 0..255, a string a sequence of  *)
(* Unicode code points.  bytes.decode is modelled codec by codec: UTF-8    *)
(* and latin-1 by their rules, the single-byte code pages by their full    *)
(* tables, the five multi-byte East Asian codecs by CPython's decoding     *)
(* loop over their tables.  The multi-byte tables are CPython's tables     *)
(* restricted to the byte pairs over ByteAlphabet; every buffer of every   *)
(* specification below is a sequence over ByteAlphabet.                    *)
(***************************************************************************)
EXTENDS Integers, Sequences, FiniteSets, TLC

VARIABLES
  known,          \* the encoding names the runtime's codec registry knows
  text,           \* text[p]: the plaintext parameter of test case p (or none)
  text_encoding,  \* text_encoding[p]: the encoding parameter of test case p
  content_bytes,  \* content_bytes[p]: the buffer passed to call p
  pc,             \* pc[p]: the position of call p in decode_with_fallback
  idx,            \* idx[p]: position of call p's loop in common_encodings
  decoded,        \* decoded[f]: the variable `decoded` of frame f
  result,         \* result[p]: what call p returned
  attempted,      \* attempted[p]: the encodings call p has passed to decode
  hstr,           \* the string a heuristic is applied to (SpecHeur)
  henc,           \* the encoding name a heuristic is applied to (SpecHeur)
  hout            \* the three heuristics' verdicts on (hstr, henc)

vars == << known, text, text_encoding, content_bytes, pc, idx, decoded, result,
           attempted, hstr, henc, hout >>

callvars == << known, text, text_encoding, content_bytes, pc, idx, decoded, result,
               attempted >>

(***************************************************************************)
(* Bounds of the model.                                                    *)
(***************************************************************************)
\* longest raw buffer drawn exhaustively over CoreBytes
MaxLen == 3
\* longest plaintext drawn exhaustively over CoreCodePoints
MaxTextLen == 3
\* number of concurrent calls in SpecConc
NCallers == 2
\* longest run of one code point in the strings of SpecHeur
MaxRun == 6

(***************************************************************************)
(* bytes.decode(encoding), strict error handling.                          *)
(***************************************************************************)
ByteAlphabet ==
  { \h00, \h01, \h02, \h03, \h04, \h05, \h09, \h0A, \h0D, \h10, \h1F, \h20, \h21, \h2C, \h41, \h43,
    \h45, \h48, \h57, \h61, \h63, \h64, \h65, \h69, \h6C, \h6E, \h6F, \h72, \h73, \h74, \h77, \h78,
    \h7A, \h81, \h82, \h8A, \h90, \h98, \h99, \hA2, \hA4, \hA9, \hB1, \hB2, \hB3, \hB6, \hBA, \hBC,
    \hBD, \hBE, \hBF, \hC0, \hC1, \hC3, \hC4, \hC5, \hC7, \hC8, \hC9, \hCA, \hCD, \hCE, \hCF, \hD0,
    \hD4, \hD6, \hD8, \hE0, \hE2, \hE3, \hE4, \hE5, \hE6, \hE7, \hE8, \hE9, \hEC, \hF0, \hF1, \hF2,
    \hF6, \hFE, \hFF }

\* cp1251: the code point of each byte \h80..\hFF, in byte order (0: byte undefined)
cp1251_high ==
  << \h0402, \h0403, \h201A, \h0453, \h201E, \h2026, \h2020, \h2021, \h20AC, \h2030, \h0409,
     \h2039, \h040A, \h040C, \h040B, \h040F, \h0452, \h2018, \h2019, \h201C, \h201D, \h2022,
     \h2013, \h2014, 0, \h2122, \h0459, \h203A, \h045A, \h045C, \h045B, \h045F, \hA0, \h040E,
     \h045E, \h0408, \hA4, \h0490, \hA6, \hA7, \h0401, \hA9, \h0404, \hAB, \hAC, \hAD, \hAE,
     \h0407, \hB0, \hB1, \h0406, \h0456, \h0491, \hB5, \hB6, \hB7, \h0451, \h2116, \h0454, \hBB,
     \h0458, \h0405, \h0455, \h0457, \h0410, \h0411, \h0412, \h0413, \h0414, \h0415, \h0416,
     \h0417, \h0418, \h0419, \h041A, \h041B, \h041C, \h041D, \h041E, \h041F, \h0420, \h0421,
     \h0422, \h0423, \h0424, \h0425, \h0426, \h0427, \h0428, \h0429, \h042A, \h042B, \h042C,
     \h042D, \h042E, \h042F, \h0430, \h0431, \h0432, \h0433, \h0434, \h0435, \h0436, \h0437,
     \h0438, \h0439, \h043A, \h043B, \h043C, \h043D, \h043E, \h043F, \h0440, \h0441, \h0442,
     \h0443, \h0444, \h0445, \h0446, \h0447, \h0448, \h0449, \h044A, \h044B, \h044C, \h044D,
     \h044E, \h044F >>

\* iso-8859-2: the code point of each byte \h80..\hFF, in byte order (0: byte undefined)
iso8859_2_high ==
  << \h80, \h81, \h82, \h83, \h84, \h85, \h86, \h87, \h88, \h89, \h8A, \h8B, \h8C, \h8D, \h8E,
     \h8F, \h90, \h91, \h92, \h93, \h94, \h95, \h96, \h97, \h98, \h99, \h9A, \h9B, \h9C, \h9D,
     \h9E, \h9F, \hA0, \h0104, \h02D8, \h0141, \hA4, \h013D, \h015A, \hA7, \hA8, \h0160, \h015E,
     \h0164, \h0179, \hAD, \h017D, \h017B, \hB0, \h0105, \h02DB, \h0142, \hB4, \h013E, \h015B,
     \h02C7, \hB8, \h0161, \h015F, \h0165, \h017A, \h02DD, \h017E, \h017C, \h0154, \hC1, \hC2,
     \h0102, \hC4, \h0139, \h0106, \hC7, \h010C, \hC9, \h0118, \hCB, \h011A, \hCD, \hCE, \h010E,
     \h0110, \h0143, \h0147, \hD3, \hD4, \h0150, \hD6, \hD7, \h0158, \h016E, \hDA, \h0170, \hDC,
     \hDD, \h0162, \hDF, \h0155, \hE1, \hE2, \h0103, \hE4, \h013A, \h0107, \hE7, \h010D, \hE9,
     \h0119, \hEB, \h011B, \hED, \hEE, \h010F, \h0111, \h0144, \h0148, \hF3, \hF4, \h0151, \hF6,
     \hF7, \h0159, \h016F, \hFA, \h0171, \hFC, \hFD, \h0163, \h02D9 >>

\* cp1252: the code point of each byte \h80..\hFF, in byte order (0: byte undefined)
cp1252_high ==
  << \h20AC, 0, \h201A, \h0192, \h201E, \h2026, \h2020, \h2021, \h02C6, \h2030, \h0160, \h2039,
     \h0152, 0, \h017D, 0, 0, \h2018, \h2019, \h201C, \h201D, \h2022, \h2013, \h2014, \h02DC,
     \h2122, \h0161, \h203A, \h0153, 0, \h017E, \h0178, \hA0, \hA1, \hA2, \hA3, \hA4, \hA5, \hA6,
     \hA7, \hA8, \hA9, \hAA, \hAB, \hAC, \hAD, \hAE, \hAF, \hB0, \hB1, \hB2, \hB3, \hB4, \hB5,
     \hB6, \hB7, \hB8, \hB9, \hBA, \hBB, \hBC, \hBD, \hBE, \hBF, \hC0, \hC1, \hC2, \hC3, \hC4,
     \hC5, \hC6, \hC7, \hC8, \hC9, \hCA, \hCB, \hCC, \hCD, \hCE, \hCF, \hD0, \hD1, \hD2, \hD3,
     \hD4, \hD5, \hD6, \hD7, \hD8, \hD9, \hDA, \hDB, \hDC, \hDD, \hDE, \hDF, \hE0, \hE1, \hE2,
     \hE3, \hE4, \hE5, \hE6, \hE7, \hE8, \hE9, \hEA, \hEB, \hEC, \hED, \hEE, \hEF, \hF0, \hF1,
     \hF2, \hF3, \hF4, \hF5, \hF6, \hF7, \hF8, \hF9, \hFA, \hFB, \hFC, \hFD, \hFE, \hFF >>

\* the function trail byte :> code point of one row of a two-byte table
Row(trails, cps) ==
  [t \in { trails[i] : i \in DOMAIN trails } |->
     cps[CHOOSE i \in DOMAIN trails : trails[i] = t]]

\* the function lead byte :> (trail byte :> code point) of a two-byte table given by rows
Table(rows) ==
  [l \in { rows[i][1] : i \in DOMAIN rows } |->
     LET r == rows[CHOOSE i \in DOMAIN rows : rows[i][1] = l]
     IN  Row(r[2], r[3])]

\* shift_jis: rows << lead byte, trail bytes, code points >> of the byte pairs over ByteAlphabet that decode
shift_jis_pairs ==
  Table(<<
    << \h81,
       << \h41, \h43, \h45, \h48, \h57, \h61, \h63, \h64, \h65, \h69, \h6C, \h6E, \h6F, \h72, \h73,
          \h74, \h77, \h78, \h7A, \h81, \h82, \h8A, \h90, \h98, \h99, \hA2, \hA4, \hA9, \hBA, \hBC,
          \hBD, \hBE, \hBF, \hC8, \hC9, \hCA, \hCD, \hCE, \hE0, \hE2, \hE3, \hE4, \hE5, \hE6, \hE7,
          \hE8, \hF0, \hF1, \hF2, \hF6 >>,
       << \h3001, \hFF0C, \h30FB, \hFF1F, \h4EDD, \h2016, \h2026, \h2025, \h2018, \hFF08, \h3015,
          \hFF3D, \hFF5B, \h3009, \h300A, \h300B, \h300E, \h300F, \h3011, \hFF1D, \h2260, \h2640,
          \hFF04, \hA7, \h2606, \h25B3, \h25BD, \h2190, \h2286, \h2282, \h2283, \h222A, \h2229,
          \h2227, \h2228, \hAC, \h2200, \h2203, \h2252, \h226B, \h221A, \h223D, \h221D, \h2235,
          \h222B, \h222C, \h212B, \h2030, \h266F, \h2021 >> >>,
    << \h82,
       << \h57, \h61, \h63, \h64, \h65, \h69, \h6C, \h6E, \h6F, \h72, \h73, \h74, \h77, \h78, \h81,
          \h82, \h8A, \h90, \h98, \h99, \hA2, \hA4, \hA9, \hB1, \hB2, \hB3, \hB6, \hBA, \hBC, \hBD,
          \hBE, \hBF, \hC0, \hC1, \hC3, \hC4, \hC5, \hC7, \hC8, \hC9, \hCA, \hCD, \hCE, \hCF, \hD0,
          \hD4, \hD6, \hD8, \hE0, \hE2, \hE3, \hE4, \hE5, \hE6, \hE7, \hE8, \hE9, \hEC, \hF0, \hF1 >>,
       << \hFF18, \hFF22, \hFF24, \hFF25, \hFF26, \hFF2A, \hFF2D, \hFF2F, \hFF30, \hFF33, \hFF34,
          \hFF35, \hFF38, \hFF39, \hFF41, \hFF42, \hFF4A, \hFF50, \hFF58, \hFF59, \h3044, \h3046,
          \h304B, \h3053, \h3054, \h3055, \h3058, \h305C, \h305E, \h305F, \h3060, \h3061, \h3062,
          \h3063, \h3065, \h3066, \h3067, \h3069, \h306A, \h306B, \h306C, \h306F, \h3070, \h3071,
          \h3072, \h3076, \h3078, \h307A, \h3082, \h3084, \h3085, \h3086, \h3087, \h3088, \h3089,
          \h308A, \h308B, \h308E, \h3092, \h3093 >> >>,
    << \h8A,
       << \h41, \h43, \h45, \h48, \h57, \h61, \h63, \h64, \h65, \h69, \h6C, \h6E, \h6F, \h72, \h73,
          \h74, \h77, \h78, \h7A, \h81, \h82, \h8A, \h90, \h98, \h99, \hA2, \hA4, \hA9, \hB1, \hB2,
          \hB3, \hB6, \hBA, \hBC, \hBD, \hBE, \hBF, \hC0, \hC1, \hC3, \hC4, \hC5, \hC7, \hC8, \hC9,
          \hCA, \hCD, \hCE, \hCF, \hD0, \hD4, \hD6, \hD8, \hE0, \hE2, \hE3, \hE4, \hE5, \hE6, \hE7,
          \hE8, \hE9, \hEC, \hF0, \hF1, \hF2, \hF6 >>,
       << \h6666, \h6D77, \h754C, \h82A5, \h84CB, \h86CE, \h5283, \h5687, \h5404, \h683C, \h7372,
          \h7A6B, \h899A, \h8F03, \h90ED, \h95A3, \h5B66, \h5CB3, \h984D, \h68B6, \h9C0D, \h6ED1,
          \h53F6, \h91DC, \h938C, \h74E6, \h4F83, \h52E7, \h5E72, \h5E79, \h60A3, \h61BE, \h6853,
          \h6B3E, \h6B53, \h6C57, \h6F22, \h6F97, \h6F45, \h7518, \h76E3, \h770B, \h7BA1, \h7C21,
          \h7DE9, \h7F36, \h8266, \h839E, \h89B3, \h8ACC, \h9593, \h95A2, \h97D3, \h764C, \h5CA9,
          \h7FEB, \h8D0B, \h96C1, \h9811, \h9854, \h9858, \h4F01, \h559C, \h5B09, \h5BC4, \h5C90,
          \h63EE >> >>,
    << \h90,
       << \h41, \h43, \h45, \h48, \h57, \h61, \h63, \h64, \h65, \h69, \h6C, \h6E, \h6F, \h72, \h73,
          \h74, \h77, \h78, \h7A, \h81, \h82, \h8A, \h90, \h98, \h99, \hA2, \hA4, \hA9, \hB1, \hB2,
          \hB3, \hB6, \hBA, \hBC, \hBD, \hBE, \hBF, \hC0, \hC1, \hC3, \hC4, \hC5, \hC7, \hC8, \hC9,
          \hCA, \hCD, \hCE, \hCF, \hD0, \hD4, \hD6, \hD8, \hE0, \hE2, \hE3, \hE4, \hE5, \hE6, \hE7,
          \hE8, \hE9, \hEC, \hF0, \hF1, \hF2, \hF6 >>,
       << \h690D, \h71ED, \h8077, \h98DF, \h664B, \h7D33, \h82AF, \h85AA, \h89AA, \h9032, \h4EBA,
          \h5203, \h5875, \h751A, \h5C3D, \h814E, \h9663, \h976D, \h8ACF, \h5439, \h5782, \h8870,
          \h745E, \h636E, \h6749, \h4E16, \h755D, \h59D3, \h68F2, \h6816, \h6B63, \h751F, \h58F0,
          \h897F, \h8AA0, \h8A93, \h8ACB, \h901D, \h9192, \h9759, \h6589, \h7A0E, \h96BB, \h5E2D,
          \h60DC, \h621A, \h6790, \h77F3, \h7A4D, \h7C4D, \h8D64, \h8E5F, \h5207, \h8AAC, \h7D76,
          \h820C, \h8749, \h4ED9, \h5148, \h5343, \h5360, \h5BA3, \h5DDD, \h6813, \h6834, \h6CC9,
          \h6F5C >> >>,
    << \h98,
       << \h41, \h43, \h45, \h48, \h57, \h61, \h63, \h64, \h65, \h69, \h6C, \h6E, \h6F, \h72, \hA2,
          \hA4, \hA9, \hB1, \hB2, \hB3, \hB6, \hBA, \hBC, \hBD, \hBE, \hBF, \hC0, \hC1, \hC3, \hC4,
          \hC5, \hC7, \hC8, \hC9, \hCA, \hCD, \hCE, \hCF, \hD0, \hD4, \hD6, \hD8, \hE0, \hE2, \hE3,
          \hE4, \hE5, \hE6, \hE7, \hE8, \hE9, \hEC, \hF0, \hF1, \hF2, \hF6 >>,
       << \h9023, \h5442, \h6AD3, \h8DEF, \h807E, \h548C, \h6B6A, \h8CC4, \h8107, \h4E99, \h8A6B,
          \h8568, \h6900, \h8155, \h4E2A, \h4E36, \h4E58, \h4E9E, \h4E9F, \h4EA0, \h4EB3, \h4EC4,
          \h4EC2, \h4ED7, \h4EDE, \h4EED, \h4EDF, \h4EF7, \h4F5A, \h4F30, \h4F5B, \h4F57, \h4F47,
          \h4F76, \h4F88, \h4F7B, \h4F69, \h4F70, \h4F91, \h5118, \h4FDF, \h4FD8, \h5028, \h502A,
          \h5025, \h5005, \h4F1C, \h4FF6, \h5021, \h5029, \h502C, \h5011, \h6703, \h5055, \h5050,
          \h506C >> >>,
    << \h99,
       << \h41, \h43, \h45, \h48, \h57, \h61, \h63, \h64, \h65, \h69, \h6C, \h6E, \h6F, \h72, \h73,
          \h74, \h77, \h78, \h7A, \h81, \h82, \h8A, \h90, \h98, \h99, \hA2, \hA4, \hA9, \hB1, \hB2,
          \hB3, \hB6, \hBA, \hBC, \hBD, \hBE, \hBF, \hC0, \hC1, \hC3, \hC4, \hC5, \hC7, \hC8, \hC9,
          \hCA, \hCD, \hCE, \hCF, \hD0, \hD4, \hD6, \hD8, \hE0, \hE2, \hE3, \hE4, \hE5, \hE6, \hE7,
          \hE8, \hE9, \hEC, \hF0, \hF1, \hF2, \hF6 >>,
       << \h50CA, \h50C2, \h50DE, \h50E3, \h513B, \h516E, \h5182, \h56D8, \h518C, \h5193, \h51A4,
          \h51A2, \h51A9, \h51B3, \h51B1, \h51B2, \h51BD, \h51C5, \h51DB, \h51F5, \h51FE, \h5233,
          \h525E, \h528D, \h5294, \h52BC, \h52C1, \h52E6, \h5308, \h7538, \h530D, \h5315, \h5331,
          \h5338, \h5340, \h5346, \h5345, \h4E17, \h5349, \h51D6, \h535E, \h5369, \h5918, \h537B,
          \h5377, \h5382, \h53A6, \h53A5, \h53AE, \h53B0, \h96D9, \h66FC, \h53EE, \h542D, \h542E,
          \h5436, \h5429, \h541D, \h544E, \h548F, \h5475, \h548E, \h5477, \h5480, \h5476, \h5484,
          \h54A2 >> >>,
    << \hE0,
       << \h41, \h43, \h45, \h48, \h57, \h61, \h63, \h64, \h65, \h69, \h6C, \h6E, \h6F, \h72, \h73,
          \h74, \h77, \h78, \h7A, \h81, \h82, \h8A, \h90, \h98, \h99, \hA2, \hA4, \hA9, \hB1, \hB2,
          \hB3, \hB6, \hBA, \hBC, \hBD, \hBE, \hBF, \hC0, \hC1, \hC3, \hC4, \hC5, \hC7, \hC8, \hC9,
          \hCA, \hCD, \hCE, \hCF, \hD0, \hD4, \hD6, \hD8, \hE0, \hE2, \hE3, \hE4, \hE5, \hE6, \hE7,
          \hE8, \hE9, \hEC, \hF0, \hF1, \hF2, \hF6 >>,
       << \h6F13, \h6F86, \h6F78, \h6F6F, \h6FB9, \h6FDB, \h700B, \h6FFA, \h7011, \h701B, \h701D,
          \h701F, \h7030, \h7051, \h7063, \h7099, \h70F1, \h70AC, \h70B3, \h7109, \h70FD, \h714C,
          \h7195, \h71D4, \h71CE, \h7210, \h7228, \h723B, \h727E, \h7282, \h7281, \h7296, \h72B2,
          \h72C6, \h72C4, \h72CE, \h72D2, \h72E2, \h72E0, \h72F9, \h72F7, \h500F, \h730A, \h731C,
          \h7316, \h731D, \h7329, \h7325, \h733E, \h734E, \h736A, \h7370, \h7375, \h73E5, \h73DE,
          \h74A2, \h7405, \h746F, \h7425, \h73F8, \h7432, \h743A, \h745F, \h7469, \h7470, \h7463,
          \h748B >> >>,
    << \hE2,
       << \h41, \h43, \h45, \h48, \h57, \h61, \h63, \h64, \h65, \h69, \h6C, \h6E, \h6F, \h72, \h73,
          \h74, \h77, \h78, \h7A, \h81, \h82, \h8A, \h90, \h98, \h99, \hA2, \hA4, \hA9, \hB1, \hB2,
          \hB3, \hB6, \hBA, \hBC, \hBD, \hBE, \hBF, \hC0, \hC1, \hC3, \hC4, \hC5, \hC7, \hC8, \hC9,
          \hCA, \hCD, \hCE, \hCF, \hD0, \hD4, \hD6, \hD8, \hE0, \hE2, \hE3, \hE4, \hE5, \hE6, \hE7,
          \hE8, \hE9, \hEC, \hF0, \hF1, \hF2, \hF6 >>,
       << \h78DA, \h78F4, \h7912, \h792C, \h79AA, \h79E3, \h7A0D, \h7A18, \h7A19, \h7A31, \h7A37,
          \h7A57, \h7A49, \h7A69, \h9F9D, \h7A70, \h7A88, \h7A97, \h7A98, \h7AC5, \h7AC4, \h7AD3,
          \h7AE6, \h7B18, \h7B19, \h7B0B, \h7B45, \h7B70, \h7B9C, \h7B9A, \h7B8B, \h7B5D, \h7BCC,
          \h7BB4, \h7BC6, \h7BDD, \h7BE9, \h7C11, \h7C14, \h7BE5, \h7C60, \h7C00, \h7C13, \h7BF3,
          \h7BF7, \h7C17, \h7C23, \h7C27, \h7C2A, \h7C1F, \h7C4C, \h7C54, \h7C40, \h7C75, \h7C90,
          \h7CA4, \h7CAD, \h7CA2, \h7CAB, \h7CA1, \h7CA8, \h7CB3, \h7CAE, \h7CC5, \h7CC2, \h7CD8,
          \h9B3B >> >>,
    << \hE3,
       << \h41, \h43, \h45, \h48, \h57, \h61, \h63, \h64, \h65, \h69, \h6C, \h6E, \h6F, \h72, \h73,
          \h74, \h77, \h78, \h7A, \h81, \h82, \h8A, \h90, \h98, \h99, \hA2, \hA4, \hA9, \hB1, \hB2,
          \hB3, \hB6, \hBA, \hBC, \hBD, \hBE, \hBF, \hC0, \hC1, \hC3, \hC4, \hC5, \hC7, \hC8, \hC9,
          \hCA, \hCD, \hCE, \hCF, \hD0, \hD4, \hD6, \hD8, \hE0, \hE2, \hE3, \hE4, \hE5, \hE6, \hE7,
          \hE8, \hE9, \hEC, \hF0, \hF1, \hF2, \hF6 >>,
       << \h7D1C, \h7D0A, \h7D4B, \h7D3F, \h7D7D, \h7DA2, \h7DDC, \h7DB8, \h7D9F, \h7DE4, \h7DF2,
          \h7E05, \h7E0A, \h7E12, \h7E31, \h7E1F, \h7E22, \h7E46, \h7E3B, \h7E3A, \h7E67, \h7E69,
          \h8FAE, \h7E94, \h7E96, \h7F4E, \h7F51, \h7F60, \h7F88, \h7F87, \h7F8C, \h7F9D, \h7FB2,
          \h7FAE, \h7FB6, \h7FB8, \h8B71, \h7FC5, \h7FC6, \h7FD5, \h7FD4, \h7FE1, \h7FE9, \h7FF3,
          \h7FF9, \h98DC, \h800B, \h8012, \h8018, \h8019, \h803F, \h804A, \h8052, \h8070, \h8079,
          \h807D, \h807F, \h8084, \h8086, \h8085, \h809B, \h8093, \h5190, \h80D9, \h80DD, \h80C4,
          \h80EF >> >>,
    << \hE4,
       << \h41, \h43, \h45, \h48, \h57, \h61, \h63, \h64, \h65, \h69, \h6C, \h6E, \h6F, \h72, \h73,
          \h74, \h77, \h78, \h7A, \h81, \h82, \h8A, \h90, \h98, \h99, \hA2, \hA4, \hA9, \hB1, \hB2,
          \hB3, \hB6, \hBA, \hBC, \hBD, \hBE, \hBF, \hC0, \hC1, \hC3, \hC4, \hC5, \hC7, \hC8, \hC9,
          \hCA, \hCD, \hCE, \hCF, \hD0, \hD4, \hD6, \hD8, \hE0, \hE2, \hE3, \hE4, \hE5, \hE6, \hE7,
          \hE8, \hE9, \hEC, \hF0, \hF1, \hF2, \hF6 >>,
       << \h8146, \h8153, \h80FC, \h8165, \h81B0, \h81D1, \h81D8, \h81C8, \h81DA, \h81FA, \h8201,
          \h8205, \h8207, \h8210, \h8216, \h8229, \h8233, \h8240, \h8258, \h8268, \h826A, \h8292,
          \h82E3, \h82FB, \h82F9, \h8332, \h8340, \h832B, \h8396, \h8323, \h838E, \h837C, \h83A0,
          \h83A8, \h83F4, \h8413, \h83EB, \h83CE, \h83FD, \h83D8, \h840B, \h83C1, \h8407, \h83E0,
          \h83F2, \h840D, \h83BD, \h8438, \h8506, \h83FB, \h855A, \h8477, \h84AD, \h8435, \h8462,
          \h84B9, \h84BF, \h849F, \h84D9, \h84CD, \h84BB, \h84DA, \h84C6, \h84FF, \h84F4, \h8517,
          \h8515 >> >>,
    << \hE5,
       << \h41, \h43, \h45, \h48, \h57, \h61, \h63, \h64, \h65, \h69, \h6C, \h6E, \h6F, \h72, \h73,
          \h74, \h77, \h78, \h7A, \h81, \h82, \h8A, \h90, \h98, \h99, \hA2, \hA4, \hA9, \hB1, \hB2,
          \hB3, \hB6, \hBA, \hBC, \hBD, \hBE, \hBF, \hC0, \hC1, \hC3, \hC4, \hC5, \hC7, \hC8, \hC9,
          \hCA, \hCD, \hCE, \hCF, \hD0, \hD4, \hD6, \hD8, \hE0, \hE2, \hE3, \hE4, \hE5, \hE6, \hE7,
          \hE8, \hE9, \hEC, \hF0, \hF1, \hF2, \hF6 >>,
       << \h8602, \h8555, \h85A4, \h858A, \h85D0, \h85FA, \h8622, \h861A, \h8630, \h8654, \h8671,
          \h86A3, \h86A9, \h868C, \h86B6, \h86AF, \h86B0, \h86C9, \h86AB, \h86DB, \h86EF, \h8709,
          \h8737, \h874C, \h874E, \h8805, \h879F, \h87C0, \h87BB, \h87EF, \h87F2, \h880D, \h880E,
          \h8811, \h8816, \h8815, \h8822, \h8821, \h8831, \h8839, \h8827, \h883B, \h8842, \h8852,
          \h8859, \h885E, \h8881, \h887E, \h889E, \h8875, \h8882, \h8892, \h8899, \h88C4, \h88D8,
          \h88D9, \h88DD, \h88F9, \h8902, \h88FC, \h88F4, \h88E8, \h890C, \h891E, \h8925, \h892A,
          \h893B >> >>,
    << \hE6,
       << \h41, \h43, \h45, \h48, \h57, \h61, \h63, \h64, \h65, \h69, \h6C, \h6E, \h6F, \h72, \h73,
          \h74, \h77, \h78, \h7A, \h81, \h82, \h8A, \h90, \h98, \h99, \hA2, \hA4, \hA9, \hB1, \hB2,
          \hB3, \hB6, \hBA, \hBC, \hBD, \hBE, \hBF, \hC0, \hC1, \hC3, \hC4, \hC5, \hC7, \hC8, \hC9,
          \hCA, \hCD, \hCE, \hCF, \hD0, \hD4, \hD6, \hD8, \hE0, \hE2, \hE3, \hE4, \hE5, \hE6, \hE7,
          \hE8, \hE9, \hEC, \hF0, \hF1, \hF2, \hF6 >>,
       << \h8964, \h896A, \h8974, \h8983, \h89DA, \h8A1B, \h8A25, \h8A36, \h8A41, \h8A48, \h8A6C,
          \h8A85, \h8A82, \h8AA1, \h8A91, \h8AA5, \h8AA3, \h8AC4, \h8AC2, \h8AF1, \h8B14, \h8B1A,
          \h8B33, \h8B4F, \h8B4E, \h8B74, \h8B80, \h8B96, \h8C4E, \h8C50, \h8C55, \h8C78, \h8C85,
          \h8C8D, \h8C8E, \h8C94, \h8C7C, \h8C98, \h621D, \h8CAA, \h8CBD, \h8CB2, \h8CAE, \h8CB6,
          \h8CC8, \h8CC1, \h8CDA, \h8CFD, \h8CFA, \h8CFB, \h8D07, \h8D0D, \h9F4E, \h8D73, \h8D99,
          \h8DC2, \h8DBE, \h8DBA, \h8DCF, \h8DDA, \h8DD6, \h8DCC, \h8DEA, \h8DFC, \h8E08, \h8E09,
          \h8E10 >> >>,
    << \hE7,
       << \h41, \h43, \h45, \h48, \h57, \h61, \h63, \h64, \h65, \h69, \h6C, \h6E, \h6F, \h72, \h73,
          \h74, \h77, \h78, \h7A, \h81, \h82, \h8A, \h90, \h98, \h99, \hA2, \hA4, \hA9, \hB1, \hB2,
          \hB3, \hB6, \hBA, \hBC, \hBD, \hBE, \hBF, \hC0, \hC1, \hC3, \hC4, \hC5, \hC7, \hC8, \hC9,
          \hCA, \hCD, \hCE, \hCF, \hD0, \hD4, \hD6, \hD8, \hE0, \hE2, \hE3, \hE4, \hE5, \hE6, \hE7,
          \hE8, \hE9, \hEC, \hF0, \hF1, \hF2, \hF6 >>,
       << \h8E49, \h8E50, \h8E59, \h8E2A, \h8E99, \h8ECB, \h8EE3, \h8EFC, \h8EFB, \h8F05, \h8F19,
          \h8F1C, \h8F1F, \h8F26, \h8F33, \h8F3B, \h8F42, \h8F3E, \h8F49, \h8F63, \h8F64, \h8FE5,
          \h9005, \h9016, \h900B, \h9052, \h9049, \h9068, \h9080, \h908A, \h9089, \h90AF, \h90E4,
          \h90DB, \h9102, \h9112, \h9119, \h9132, \h9130, \h9156, \h9158, \h9163, \h9169, \h9173,
          \h9172, \h918B, \h91A2, \h91AB, \h91AF, \h91AA, \h91C0, \h91C9, \h91D0, \h921E, \h9214,
          \h922C, \h9215, \h9211, \h925E, \h9257, \h9245, \h9249, \h9295, \h929C, \h9296, \h9293,
          \h92B9 >> >>,
    << \hE8,
       << \h41, \h43, \h45, \h48, \h57, \h61, \h63, \h64, \h65, \h69, \h6C, \h6E, \h6F, \h72, \h73,
          \h74, \h77, \h78, \h7A, \h81, \h82, \h8A, \h90, \h98, \h99, \hA2, \hA4, \hA9, \hB1, \hB2,
          \hB3, \hB6, \hBA, \hBC, \hBD, \hBE, \hBF, \hC0, \hC1, \hC3, \hC4, \hC5, \hC7, \hC8, \hC9,
          \hCA, \hCD, \hCE, \hCF, \hD0, \hD4, \hD6, \hD8, \hE0, \hE2, \hE3, \hE4, \hE5, \hE6, \hE7,
          \hE8, \hE9, \hEC, \hF0, \hF1, \hF2, \hF6 >>,
       << \h9322, \h9323, \h9335, \h9360, \h93DD, \h9436, \h9435, \h9421, \h943A, \h945B, \h945E,
          \h9229, \h9470, \h947D, \h945A, \h947C, \h947F, \h9582, \h958A, \h95A8, \h95A7, \h95C3,
          \h95DC, \h9642, \h964C, \h9672, \h968D, \h96A7, \h96CE, \h96CB, \h96C9, \h96DC, \h9704,
          \h9708, \h9713, \h970E, \h9711, \h970F, \h9716, \h9724, \h972A, \h9730, \h973D, \h973E,
          \h9744, \h9746, \h9749, \h975C, \h9760, \h9764, \h976B, \h9779, \h977C, \h97A8, \h97A3,
          \h97B3, \h97B4, \h97C3, \h97C6, \h97C8, \h97CB, \h97DC, \h97F2, \h980F, \h980C, \h9838,
          \h983D >> >>,
    << \hE9,
       << \h41, \h43, \h45, \h48, \h57, \h61, \h63, \h64, \h65, \h69, \h6C, \h6E, \h6F, \h72, \h73,
          \h74, \h77, \h78, \h7A, \h81, \h82, \h8A, \h90, \h98, \h99, \hA2, \hA4, \hA9, \hB1, \hB2,
          \hB3, \hB6, \hBA, \hBC, \hBD, \hBE, \hBF, \hC0, \hC1, \hC3, \hC4, \hC5, \hC7, \hC8, \hC9,
          \hCA, \hCD, \hCE, \hCF, \hD0, \hD4, \hD6, \hD8, \hE0, \hE2, \hE3, \hE4, \hE5, \hE6, \hE7,
          \hE8, \hE9, \hEC, \hF0, \hF1, \hF2, \hF6 >>,
       << \h9874, \h98AA, \h98B1, \h98C3, \h992E, \h994C, \h9997, \h9998, \h99A5, \h99DF, \h99D8,
          \h99ED, \h99EE, \h99FB, \h99F8, \h9A01, \h99E2, \h9A19, \h9A37, \h9A55, \h9A4D, \h9A6B,
          \h9ACF, \h9AE6, \h9AEF, \h9B1A, \h9B22, \h9B29, \h9B4D, \h9B4E, \h9B51, \h9B93, \h9B97,
          \h9BA0, \h9BA8, \h9BB4, \h9BC0, \h9BCA, \h9BB9, \h9BCF, \h9BD1, \h9BD2, \h9BE2, \h9BE4,
          \h9BD4, \h9BE1, \h9BF1, \h9BF0, \h9C15, \h9C14, \h9C06, \h9C12, \h9C04, \h9C32, \h9C3E,
          \h9C5A, \h9C60, \h9C67, \h9C76, \h9C78, \h9CE7, \h9CEC, \h9D08, \h9D2A, \h9D26, \h9DAF,
          \h9D15 >> >>
  >>)

\* euc-kr: rows << lead byte, trail bytes, code points >> of the byte pairs over ByteAlphabet that decode
euc_kr_pairs ==
  Table(<<
    << \hA2,
       << \hA2, \hA4, \hA9, \hB1, \hB2, \hB3, \hB6, \hBA, \hBC, \hBD, \hBE, \hBF, \hC0, \hC1, \hC3,
          \hC4, \hC5, \hC7, \hC8, \hC9, \hCA, \hCD, \hCE, \hCF, \hD0, \hD4, \hD6, \hD8, \hE0, \hE2,
          \hE3, \hE4, \hE5, \hE6, \hE7 >>,
       << \h21D4, \h2203, \h02DD, \h222E, \h2211, \h220F, \h2030, \h25B6, \h2660, \h2661, \h2665,
          \h2667, \h2663, \h2299, \h25A3, \h25D0, \h25D1, \h25A4, \h25A5, \h25A8, \h25A7, \h2668,
          \h260F, \h260E, \h261C, \h2021, \h2197, \h2196, \h2116, \h2122, \h33C2, \h33D8, \h2121,
          \h20AC, \hAE >> >>,
    << \hA4,
       << \hA2, \hA4, \hA9, \hB1, \hB2, \hB3, \hB6, \hBA, \hBC, \hBD, \hBE, \hBF, \hC0, \hC1, \hC3,
          \hC4, \hC5, \hC7, \hC8, \hC9, \hCA, \hCD, \hCE, \hCF, \hD0, \hD6, \hD8, \hE0, \hE2, \hE3,
          \hE4, \hE5, \hE6, \hE7, \hE8, \hE9, \hEC, \hF0, \hF1, \hF2, \hF6, \hFE >>,
       << \h3132, \h3134, \h3139, \h3141, \h3142, \h3143, \h3146, \h314A, \h314C, \h314D, \h314E,
          \h314F, \h3150, \h3151, \h3153, \h3154, \h3155, \h3157, \h3158, \h3159, \h315A, \h315D,
          \h315E, \h315F, \h3160, \h3166, \h3168, \h3170, \h3172, \h3173, \h3174, \h3175, \h3176,
          \h3177, \h3178, \h3179, \h317C, \h3180, \h3181, \h3182, \h3186, \h318E >> >>,
    << \hA9,
       << \hA2, \hA4, \hA9, \hB1, \hB2, \hB3, \hB6, \hBA, \hBC, \hBD, \hBE, \hBF, \hC0, \hC1, \hC3,
          \hC4, \hC5, \hC7, \hC8, \hC9, \hCA, \hCD, \hCE, \hCF, \hD0, \hD4, \hD6, \hD8, \hE0, \hE2,
          \hE3, \hE4, \hE5, \hE6, \hE7, \hE8, \hE9, \hEC, \hF0, \hF1, \hF2, \hF6, \hFE >>,
       << \h0111, \h0127, \h0142, \h3200, \h3201, \h3202, \h3205, \h3209, \h320B, \h320C, \h320D,
          \h320E, \h320F, \h3210, \h3212, \h3213, \h3214, \h3216, \h3217, \h3218, \h3219, \h249C,
          \h249D, \h249E, \h249F, \h24A3, \h24A5, \h24A7, \h24AF, \h24B1, \h24B2, \h24B3, \h24B4,
          \h24B5, \h2474, \h2475, \h2476, \h2479, \h247D, \h247E, \h247F, \hB9, \h2084 >> >>,
    << \hB1,
       << \hA2, \hA4, \hA9, \hB1, \hB2, \hB3, \hB6, \hBA, \hBC, \hBD, \hBE, \hBF, \hC0, \hC1, \hC3,
          \hC4, \hC5, \hC7, \hC8, \hC9, \hCA, \hCD, \hCE, \hCF, \hD0, \hD4, \hD6, \hD8, \hE0, \hE2,
          \hE3, \hE4, \hE5, \hE6, \hE7, \hE8, \hE9, \hEC, \hF0, \hF1, \hF2, \hF6, \hFE >>,
       << \hAD0D, \hAD11, \hAD2C, \hAD47, \hAD49, \hAD50, \hAD61, \hAD70, \hAD74, \hAD75, \hAD76,
          \hAD7B, \hAD7C, \hAD7D, \hAD81, \hAD82, \hAD88, \hAD8C, \hAD90, \hAD9C, \hAD9D, \hADC0,
          \hADC1, \hADC4, \hADC8, \hADDC, \hADE4, \hADF9, \hAE0D, \hAE30, \hAE31, \hAE34, \hAE37,
          \hAE38, \hAE3A, \hAE40, \hAE41, \hAE46, \hAE4E, \hAE50, \hAE54, \hAE5F, \hAE78 >> >>,
    << \hB2,
       << \hA2, \hA4, \hA9, \hB1, \hB2, \hB3, \hB6, \hBA, \hBC, \hBD, \hBE, \hBF, \hC0, \hC1, \hC3,
          \hC4, \hC5, \hC7, \hC8, \hC9, \hCA, \hCD, \hCE, \hCF, \hD0, \hD4, \hD6, \hD8, \hE0, \hE2,
          \hE3, \hE4, \hE5, \hE6, \hE7, \hE8, \hE9, \hEC, \hF0, \hF1, \hF2, \hF6, \hFE >>,
       << \hAE7B, \hAE7D, \hAEBD, \hAED1, \hAED8, \hAED9, \hAEEB, \hAEFC, \hAF08, \hAF0D, \hAF10,
          \hAF2C, \hAF2D, \hAF30, \hAF34, \hAF3C, \hAF3D, \hAF41, \hAF42, \hAF43, \hAF48, \hAF5C,
          \hAF5D, \hAF64, \hAF65, \hAF88, \hAF91, \hAF9C, \hAFCB, \hAFCE, \hAFD4, \hAFDC, \hAFE8,
          \hAFE9, \hAFF0, \hAFF1, \hAFF4, \hB001, \hB014, \hB01C, \hB01D, \hB048, \hB059 >> >>,
    << \hB3,
       << \hA2, \hA4, \hA9, \hB1, \hB2, \hB3, \hB6, \hBA, \hBC, \hBD, \hBE, \hBF, \hC0, \hC1, \hC3,
          \hC4, \hC5, \hC7, \hC8, \hC9, \hCA, \hCD, \hCE, \hCF, \hD0, \hD4, \hD6, \hD8, \hE0, \hE2,
          \hE3, \hE4, \hE5, \hE6, \hE7, \hE8, \hE9, \hEC, \hF0, \hF1, \hF2, \hF6, \hFE >>,
       << \hB07C, \hB080, \hB091, \hB0A2, \hB0A8, \hB0A9, \hB0AD, \hB0B3, \hB0B5, \hB0B8, \hB0BC,
          \hB0C4, \hB0C5, \hB0C7, \hB0C9, \hB0D0, \hB0D1, \hB0D8, \hB0E0, \hB0E5, \hB108, \hB10C,
          \hB110, \hB112, \hB113, \hB11C, \hB123, \hB125, \hB140, \hB144, \hB148, \hB150, \hB151,
          \hB154, \hB155, \hB158, \hB15C, \hB179, \hB188, \hB189, \hB18B, \hB194, \hB1DD >> >>,
    << \hB6,
       << \hA2, \hA4, \hA9, \hB1, \hB2, \hB3, \hB6, \hBA, \hBC, \hBD, \hBE, \hBF, \hC0, \hC1, \hC3,
          \hC4, \hC5, \hC7, \hC8, \hC9, \hCA, \hCD, \hCE, \hCF, \hD0, \hD4, \hD6, \hD8, \hE0, \hE2,
          \hE3, \hE4, \hE5, \hE6, \hE7, \hE8, \hE9, \hEC, \hF0, \hF1, \hF2, \hF6, \hFE >>,
       << \hB541, \hB544, \hB550, \hB5A1, \hB5A4, \hB5A8, \hB5B0, \hB5B5, \hB5BC, \hB5BD, \hB5C0,
          \hB5C4, \hB5CC, \hB5CD, \hB5D0, \hB5D1, \hB5D8, \hB610, \hB611, \hB614, \hB618, \hB634,
          \hB648, \hB664, \hB668, \hB6A4, \hB6AC, \hB6D4, \hB729, \hB72F, \hB730, \hB738, \hB739,
          \hB73B, \hB744, \hB748, \hB74C, \hB760, \hB771, \hB773, \hB775, \hB784, \hB797 >> >>,
    << \hBA,
       << \hA2, \hA4, \hA9, \hB1, \hB2, \hB3, \hB6, \hBA, \hBC, \hBD, \hBE, \hBF, \hC0, \hC1, \hC3,
          \hC4, \hC5, \hC7, \hC8, \hC9, \hCA, \hCD, \hCE, \hCF, \hD0, \hD4, \hD6, \hD8, \hE0, \hE2,
          \hE3, \hE4, \hE5, \hE6, \hE7, \hE8, \hE9, \hEC, \hF0, \hF1, \hF2, \hF6, \hFE >>,
       << \hBC9A, \hBCA1, \hBCB1, \hBCCD, \hBCCF, \hBCD0, \hBCD8, \hBCF6, \hBCFC, \hBD04, \hBD05,
          \hBD07, \hBD09, \hBD10, \hBD24, \hBD2C, \hBD40, \hBD49, \hBD4C, \hBD50, \hBD58, \hBD68,
          \hBD80, \hBD81, \hBD84, \hBD8A, \hBD91, \hBD95, \hBDD5, \hBDDC, \hBDE9, \hBDF0, \hBDF4,
          \hBDF8, \hBE00, \hBE03, \hBE05, \hBE10, \hBE1F, \hBE44, \hBE45, \hBE54, \hBE64 >> >>,
    << \hBC,
       << \hA2, \hA4, \hA9, \hB1, \hB2, \hB3, \hB6, \hBA, \hBC, \hBD, \hBE, \hBF, \hC0, \hC1, \hC3,
          \hC4, \hC5, \hC7, \hC8, \hC9, \hCA, \hCD, \hCE, \hCF, \hD0, \hD4, \hD6, \hD8, \hE0, \hE2,
          \hE3, \hE4, \hE5, \hE6, \hE7, \hE8, \hE9, \hEC, \hF0, \hF1, \hF2, \hF6, \hFE >>,
       << \hC0E8, \hC0F4, \hC104, \hC120, \hC123, \hC124, \hC12C, \hC131, \hC138, \hC139, \hC13C,
          \hC140, \hC148, \hC149, \hC14C, \hC14D, \hC154, \hC158, \hC15C, \hC164, \hC165, \hC169,
          \hC170, \hC174, \hC178, \hC18E, \hC194, \hC19C, \hC1B0, \hC1C4, \hC1C8, \hC1CC, \hC1D4,
          \hC1D7, \hC1D8, \hC1E0, \hC1E4, \hC1F1, \hC200, \hC204, \hC20C, \hC218, \hC22D >> >>,
    << \hBD,
       << \hA2, \hA4, \hA9, \hB1, \hB2, \hB3, \hB6, \hBA, \hBC, \hBD, \hBE, \hBF, \hC0, \hC1, \hC3,
          \hC4, \hC5, \hC7, \hC8, \hC9, \hCA, \hCD, \hCE, \hCF, \hD0, \hD4, \hD6, \hD8, \hE0, \hE2,
          \hE3, \hE4, \hE5, \hE6, \hE7, \hE8, \hE9, \hEC, \hF0, \hF1, \hF2, \hF6, \hFE >>,
       << \hC231, \hC234, \hC258, \hC27D, \hC27F, \hC281, \hC290, \hC2A4, \hC2A8, \hC2AC, \hC2AD,
          \hC2B4, \hC2B5, \hC2B7, \hC2DC, \hC2DD, \hC2E0, \hC2E4, \hC2EB, \hC2EC, \hC2ED, \hC2F6,
          \hC2F8, \hC2F9, \hC2FB, \hC309, \hC30D, \hC314, \hC345, \hC369, \hC36C, \hC370, \hC372,
          \hC378, \hC379, \hC37C, \hC37D, \hC38C, \hC3DC, \hC3DF, \hC3E0, \hC3ED, \hC430 >> >>,
    << \hBE,
       << \hA2, \hA4, \hA9, \hB1, \hB2, \hB3, \hB6, \hBA, \hBC, \hBD, \hBE, \hBF, \hC0, \hC1, \hC3,
          \hC4, \hC5, \hC7, \hC8, \hC9, \hCA, \hCD, \hCE, \hCF, \hD0, \hD4, \hD6, \hD8, \hE0, \hE2,
          \hE3, \hE4, \hE5, \hE6, \hE7, \hE8, \hE9, \hEC, \hF0, \hF1, \hF2, \hF6, \hFE >>,
       << \hC43C, \hC448, \hC474, \hC4E9, \hC4F0, \hC4F1, \hC4FA, \hC50C, \hC514, \hC51C, \hC528,
          \hC529, \hC52C, \hC530, \hC539, \hC53B, \hC53D, \hC545, \hC548, \hC549, \hC54A, \hC54E,
          \hC553, \hC554, \hC555, \hC55D, \hC560, \hC564, \hC57D, \hC584, \hC587, \hC58C, \hC58D,
          \hC58F, \hC591, \hC595, \hC597, \hC5A0, \hC5B8, \hC5B9, \hC5BB, \hC5C4, \hC5CE >> >>,
    << \hBF,
       << \hA2, \hA4, \hA9, \hB1, \hB2, \hB3, \hB6, \hBA, \hBC, \hBD, \hBE, \hBF, \hC0, \hC1, \hC3,
          \hC4, \hC5, \hC7, \hC8, \hC9, \hCA, \hCD, \hCE, \hCF, \hD0, \hD4, \hD6, \hD8, \hE0, \hE2,
          \hE3, \hE4, \hE5, \hE6, \hE7, \hE8, \hE9, \hEC, \hF0, \hF1, \hF2, \hF6, \hFE >>,
       << \hC5D1, \hC5D8, \hC5EC, \hC5FD, \hC5FE, \hC5FF, \hC605, \hC60C, \hC618, \hC619, \hC61B,
          \hC61C, \hC624, \hC625, \hC62C, \hC62D, \hC62E, \hC633, \hC634, \hC635, \hC637, \hC640,
          \hC641, \hC644, \hC648, \hC654, \hC65C, \hC660, \hC688, \hC68B, \hC68D, \hC694, \hC695,
          \hC698, \hC69C, \hC6A4, \hC6A5, \hC6B0, \hC6B9, \hC6BA, \hC6C0, \hC6CC, \hC6E8 >> >>,
    << \hC0,
       << \hA2, \hA4, \hA9, \hB1, \hB2, \hB3, \hB6, \hBA, \hBC, \hBD, \hBE, \hBF, \hC0, \hC1, \hC3,
          \hC4, \hC5, \hC7, \hC8, \hC9, \hCA, \hCD, \hCE, \hCF, \hD0, \hD4, \hD6, \hD8, \hE0, \hE2,
          \hE3, \hE4, \hE5, \hE6, \hE7, \hE8, \hE9, \hEC, \hF0, \hF1, \hF2, \hF6, \hFE >>,
       << \hC6EC, \hC6F8, \hC708, \hC724, \hC728, \hC730, \hC735, \hC740, \hC74A, \hC74C, \hC74D,
          \hC74F, \hC751, \hC752, \hC754, \hC755, \hC756, \hC758, \hC75C, \hC760, \hC768, \hC775,
          \hC778, \hC77C, \hC77D, \hC785, \hC788, \hC78A, \hC79A, \hC7A1, \hC7A3, \hC7A4, \hC7A5,
          \hC7A6, \hC7AC, \hC7AD, \hC7B0, \hC7BD, \hC7C8, \hC7C9, \hC7CC, \hC7DD, \hC80A >> >>,
    << \hC1,
       << \hA2, \hA4, \hA9, \hB1, \hB2, \hB3, \hB6, \hBA, \hBC, \hBD, \hBE, \hBF, \hC0, \hC1, \hC3,
          \hC4, \hC5, \hC7, \hC8, \hC9, \hCA, \hCD, \hCE, \hCF, \hD0, \hD4, \hD6, \hD8, \hE0, \hE2,
          \hE3, \hE4, \hE5, \hE6, \hE7, \hE8, \hE9, \hEC, \hF0, \hF1, \hF2, \hF6, \hFE >>,
       << \hC811, \hC815, \hC824, \hC848, \hC849, \hC84C, \hC870, \hC87A, \hC881, \hC883, \hC885,
          \hC886, \hC887, \hC88B, \hC88D, \hC894, \hC89D, \hC8A1, \hC8A8, \hC8BC, \hC8BD, \hC8CC,
          \hC8D4, \hC8D5, \hC8D7, \hC8E4, \hC8FC, \hC900, \hC918, \hC934, \hC950, \hC951, \hC954,
          \hC958, \hC960, \hC961, \hC963, \hC974, \hC98C, \hC990, \hC998, \hC9C0, \hC9D3 >> >>,
    << \hC3,
       << \hA2, \hA4, \hA9, \hB1, \hB2, \hB3, \hB6, \hBA, \hBC, \hBD, \hBE, \hBF, \hC0, \hC1, \hC3,
          \hC4, \hC5, \hC7, \hC8, \hC9, \hCA, \hCD, \hCE, \hCF, \hD0, \hD4, \hD6, \hD8, \hE0, \hE2,
          \hE3, \hE4, \hE5, \hE6, \hE7, \hE8, \hE9, \hEC, \hF0, \hF1, \hF2, \hF6, \hFE >>,
       << \hCC3D, \hCC44, \hCC55, \hCC70, \hCC75, \hCC98, \hCCA0, \hCCAC, \hCCB4, \hCCB5, \hCCB8,
          \hCCBC, \hCCC4, \hCCC5, \hCCC9, \hCCD0, \hCCD4, \hCCEC, \hCCF0, \hCD01, \hCD08, \hCD10,
          \hCD18, \hCD19, \hCD1B, \hCD2C, \hCD5C, \hCD64, \hCD95, \hCD9C, \hCDA4, \hCDA5, \hCDA7,
          \hCDA9, \hCDB0, \hCDC4, \hCDCC, \hCDEC, \hCDFB, \hCDFD, \hCE04, \hCE19, \hCE35 >> >>,
    << \hC4,
       << \hA2, \hA4, \hA9, \hB1, \hB2, \hB3, \hB6, \hBA, \hBC, \hBD, \hBE, \hBF, \hC0, \hC1, \hC3,
          \hC4, \hC5, \hC7, \hC8, \hC9, \hCA, \hCD, \hCE, \hCF, \hD0, \hD4, \hD6, \hD8, \hE0, \hE2,
          \hE3, \hE4, \hE5, \hE6, \hE7, \hE8, \hE9, \hEC, \hF0, \hF1, \hF2, \hF6, \hFE >>,
       << \hCE59, \hCE5F, \hCE6B, \hCE87, \hCE89, \hCE90, \hCE98, \hCEA4, \hCEAC, \hCEAD, \hCEC1,
          \hCEE4, \hCEE5, \hCEE8, \hCEEC, \hCEF4, \hCEF5, \hCEF8, \hCEF9, \hCF00, \hCF01, \hCF10,
          \hCF11, \hCF13, \hCF15, \hCF2C, \hCF2F, \hCF31, \hCF67, \hCF70, \hCF71, \hCF74, \hCF78,
          \hCF80, \hCF85, \hCF8C, \hCFA1, \hCFC4, \hCFE8, \hCFF0, \hCFF1, \hD000, \hD03C >> >>,
    << \hC5,
       << \hA2, \hA4, \hA9, \hB1, \hB2, \hB3, \hB6, \hBA, \hBC, \hBD, \hBE, \hBF, \hC0, \hC1, \hC3,
          \hC4, \hC5, \hC7, \hC8, \hC9, \hCA, \hCD, \hCE, \hCF, \hD0, \hD4, \hD6, \hD8, \hE0, \hE2,
          \hE3, \hE4, \hE5, \hE6, \hE7, \hE8, \hE9, \hEC, \hF0, \hF1, \hF2, \hF6, \hFE >>,
       << \hD045, \hD049, \hD06C, \hD0A5, \hD0A8, \hD0AC, \hD0B7, \hD0C4, \hD0C9, \hD0D0, \hD0D1,
          \hD0D3, \hD0D4, \hD0D5, \hD0DD, \hD0E0, \hD0E4, \hD0ED, \hD0EF, \hD0F0, \hD0F1, \hD130,
          \hD131, \hD134, \hD138, \hD143, \hD145, \hD14D, \hD16C, \hD184, \hD188, \hD1A0, \hD1A1,
          \hD1A4, \hD1A8, \hD1B0, \hD1B1, \hD1BA, \hD1F4, \hD1F8, \hD207, \hD22D, \hD25C >> >>,
    << \hC7,
       << \hA2, \hA4, \hA9, \hB1, \hB2, \hB3, \hB6, \hBA, \hBC, \hBD, \hBE, \hBF, \hC0, \hC1, \hC3,
          \hC4, \hC5, \hC7, \hC8, \hC9, \hCA, \hCD, \hCE, \hCF, \hD0, \hD4, \hD6, \hD8, \hE0, \hE2,
          \hE3, \hE4, \hE5, \hE6, \hE7, \hE8, \hE9, \hEC, \hF0, \hF1, \hF2, \hF6, \hFE >>,
       << \hD41D, \hD444, \hD46F, \hD489, \hD48B, \hD48D, \hD4CC, \hD4DF, \hD4EC, \hD4F0, \hD4F8,
          \hD4FB, \hD4FD, \hD504, \hD50C, \hD514, \hD515, \hD53C, \hD53D, \hD540, \hD544, \hD54F,
          \hD551, \hD558, \hD559, \hD568, \hD56B, \hD574, \hD589, \hD5A5, \hD5C8, \hD5C9, \hD5CC,
          \hD5D0, \hD5D2, \hD5D8, \hD5D9, \hD5E4, \hD5F4, \hD5F5, \hD5F7, \hD604, \hD620 >> >>,
    << \hC8,
       << \hA2, \hA4, \hA9, \hB1, \hB2, \hB3, \hB6, \hBA, \hBC, \hBD, \hBE, \hBF, \hC0, \hC1, \hC3,
          \hC4, \hC5, \hC7, \hC8, \hC9, \hCA, \hCD, \hCE, \hCF, \hD0, \hD4, \hD6, \hD8, \hE0, \hE2,
          \hE3, \hE4, \hE5, \hE6, \hE7, \hE8, \hE9, \hEC, \hF0, \hF1, \hF2, \hF6, \hFE >>,
       << \hD62D, \hD639, \hD649, \hD667, \hD669, \hD670, \hD683, \hD690, \hD69D, \hD69F, \hD6A1,
          \hD6A8, \hD6AC, \hD6B0, \hD6BB, \hD6C4, \hD6C5, \hD6CC, \hD6D1, \hD6D4, \hD6D7, \hD6E4,
          \hD6E8, \hD6F0, \hD6F5, \hD704, \hD718, \hD71C, \hD738, \hD744, \hD747, \hD749, \hD750,
          \hD751, \hD754, \hD756, \hD757, \hD760, \hD769, \hD76C, \hD770, \hD781, \hD79D >> >>,
    << \hCA,
       << \hA2, \hA4, \hA9, \hB1, \hB2, \hB3, \hB6, \hBA, \hBC, \hBD, \hBE, \hBF, \hC0, \hC1, \hC3,
          \hC4, \hC5, \hC7, \hC8, \hC9, \hCA, \hCD, \hCE, \hCF, \hD0, \hD4, \hD6, \hD8, \hE0, \hE2,
          \hE3, \hE4, \hE5, \hE6, \hE7, \hE8, \hE9, \hEC, \hF0, \hF1, \hF2, \hF6, \hFE >>,
       << \h4F73, \h50F9, \h5609, \h73C2, \h75C2, \h7A3C, \h8857, \h8DCF, \h8FE6, \h99D5, \h523B,
          \h5374, \h5404, \h606A, \h6BBC, \h73CF, \h811A, \h89D2, \h95A3, \h4F83, \h520A, \h59E6,
          \h5E72, \h5E79, \h61C7, \h687F, \h764E, \h78F5, \h9593, \h559D, \h66F7, \h6E34, \h78A3,
          \h7AED, \h845B, \h8910, \h874E, \h574E, \h61BE, \h6221, \h6562, \h7518, \h9F95 >> >>,
    << \hCD,
       << \hA2, \hA4, \hA9, \hB1, \hB2, \hB3, \hB6, \hBA, \hBC, \hBD, \hBE, \hBF, \hC0, \hC1, \hC3,
          \hC4, \hC5, \hC7, \hC8, \hC9, \hCA, \hCD, \hCE, \hCF, \hD0, \hD4, \hD6, \hD8, \hE0, \hE2,
          \hE3, \hE4, \hE5, \hE6, \hE7, \hE8, \hE9, \hEC, \hF0, \hF1, \hF2, \hF6, \hFE >>,
       << \h6EAA, \h7678, \h7E7C, \h544A, \h5471, \h56FA, \h5C3B, \h6545, \h66A0, \h67AF, \h69C1,
          \h6CBD, \h75FC, \h7690, \h7A3F, \h7F94, \h8003, \h818F, \h82E6, \h82FD, \h83F0, \h88B4,
          \h8AA5, \hF903, \h8F9C, \h9AD8, \h54ED, \h66F2, \h6606, \h68CD, \h6EFE, \h7428, \h889E,
          \h9BE4, \h6C68, \hF904, \h9AA8, \h5171, \h6050, \h606D, \h62F1, \h7A7A, \h74DC >> >>,
    << \hCE,
       << \hA2, \hA4, \hA9, \hB1, \hB2, \hB3, \hB6, \hBA, \hBC, \hBD, \hBE, \hBF, \hC0, \hC1, \hC3,
          \hC4, \hC5, \hC7, \hC8, \hC9, \hCA, \hCD, \hCE, \hCF, \hD0, \hD4, \hD6, \hD8, \hE0, \hE2,
          \hE3, \hE4, \hE5, \hE6, \hE7, \hE8, \hE9, \hEC, \hF0, \hF1, \hF2, \hF6, \hFE >>,
       << \h83D3, \h8AB2, \h5ED3, \h6163, \h68FA, \h6B3E, \h74D8, \h89C0, \h95DC, \h9928, \h522E,
          \h605D, \h62EC, \h9002, \h5149, \h5321, \h58D9, \h66E0, \h6D38, \h709A, \h72C2, \h80F1,
          \h945B, \h5366, \h639B, \h584A, \h602A, \h62D0, \h50D1, \h55AC, \h5B0C, \h5DA0, \h5DE7,
          \h652A, \h654E, \h6821, \h6A4B, \h77EF, \h854E, \h86DF, \h8F03, \h9A55, \h52FE >> >>,
    << \hCF,
       << \hA2, \hA4, \hA9, \hB1, \hB2, \hB3, \hB6, \hBA, \hBC, \hBD, \hBE, \hBF, \hC0, \hC1, \hC3,
          \hC4, \hC5, \hC7, \hC8, \hC9, \hCA, \hCD, \hCE, \hCF, \hD0, \hD4, \hD6, \hD8, \hE0, \hE2,
          \hE3, \hE4, \hE5, \hE6, \hE7, \hE8, \hE9, \hEC, \hF0, \hF1, \hF2, \hF6, \hFE >>,
       << \h53E3, \h548E, \h5D87, \h6B50, \h6BC6, \h6BEC, \h7078, \h77BF, \h7A76, \h7D7F, \h8009,
          \h81FC, \h8205, \h820A, \h8862, \h8B33, \h8CFC, \h9011, \h90B1, \h9264, \h92B6, \h9CE9,
          \h9DD7, \h9F9C, \h570B, \h97AB, \h541B, \h7FA4, \h5BAE, \h7A79, \h7AAE, \h828E, \h8EAC,
          \h5026, \h5238, \h52F8, \h5377, \h6372, \h53A5, \h7357, \h8568, \h6AC3, \h8CB4 >> >>,
    << \hD0,
       << \hA2, \hA4, \hA9, \hB1, \hB2, \hB3, \hB6, \hBA, \hBC, \hBD, \hBE, \hBF, \hC0, \hC1, \hC3,
          \hC4, \hC5, \hC7, \hC8, \hC9, \hCA, \hCD, \hCE, \hCF, \hD0, \hD4, \hD6, \hD8, \hE0, \hE2,
          \hE3, \hE4, \hE5, \hE6, \hE7, \hE8, \hE9, \hEC, \hF0, \hF1, \hF2, \hF6, \hFE >>,
       << \hF907, \h572D, \h7845, \h95A8, \h52FB, \h5747, \h83CC, \h514B, \h5287, \h621F, \h68D8,
          \h6975, \h9699, \h50C5, \h52E4, \h61C3, \h65A4, \h69FF, \h747E, \h7B4B, \h82B9, \h8B39,
          \h8FD1, \h9949, \hF909, \h6611, \h7434, \h79BD, \h53CA, \h6271, \h6C72, \h7D1A, \h7D66,
          \h4E98, \h5162, \h77DC, \h80AF, \h5176, \h573B, \h57FA, \h57FC, \h5BC4, \h65E3 >> >>,
    << \hD4,
       << \hA2, \hA4, \hA9, \hB1, \hB2, \hB3, \hB6, \hBA, \hBC, \hBD, \hBE, \hBF, \hC0, \hC1, \hC3,
          \hC4, \hC5, \hC7, \hC8, \hC9, \hCA, \hCD, \hCE, \hCF, \hD0, \hD4, \hD6, \hD8, \hE0, \hE2,
          \hE3, \hE4, \hE5, \hE6, \hE7, \hE8, \hE9, \hEC, \hF0, \hF1, \hF2, \hF6, \hFE >>,
       << \h6AC2, \h6E21, \h7779, \h9003, \h9014, \h9053, \h9676, \h7258, \h7368, \h7763, \h79BF,
          \h7BE4, \h7E9B, \h8B80, \h60C7, \h6566, \h65FD, \h6C8C, \h711E, \h71C9, \h8C5A, \h7A81,
          \h4EDD, \h51AC, \h51CD, \h6771, \h68DF, \h6F7C, \h6597, \h6793, \h75D8, \h7AC7, \h8373,
          \hF95A, \h8C46, \h9017, \h982D, \h829A, \h5F97, \h5D9D, \h6A59, \h85E4, \h7F85 >> >>,
    << \hD6,
       << \hA2, \hA4, \hA9, \hB1, \hB2, \hB3, \hB6, \hBA, \hBC, \hBD, \hBE, \hBF, \hC0, \hC1, \hC3,
          \hC4, \hC5, \hC7, \hC8, \hC9, \hCA, \hCD, \hCE, \hCF, \hD0, \hD4, \hD6, \hD8, \hE0, \hE2,
          \hE3, \hE4, \hE5, \hE6, \hE7, \hE8, \hE9, \hEC, \hF0, \hF1, \hF2, \hF6, \hFE >>,
       << \h7489, \h806F, \h51BD, \h6BAE, \h6FC2, \h7C3E, \h4F36, \h5DBA, \h73B2, \h7B2D, \h7F9A,
          \h7FCE, \h8046, \h901E, \h96F6, \h9748, \h9818, \h4F8B, \h6FA7, \h79AE, \h91B4, \hF960,
          \h6488, \h64C4, \h6AD3, \h76E7, \h8606, \h8DEF, \h7DA0, \h9304, \h9E7F, \h9E93, \h8AD6,
          \h58DF, \h5F04, \h6727, \h7027, \h807E, \h78CA, \h8CC2, \h8CDA, \h50DA, \h84FC >> >>,
    << \hD8,
       << \hA2, \hA4, \hA9, \hB1, \hB2, \hB3, \hB6, \hBA, \hBC, \hBD, \hBE, \hBF, \hC0, \hC1, \hC3,
          \hC4, \hC5, \hC7, \hC8, \hC9, \hCA, \hCD, \hCE, \hCF, \hD0, \hD4, \hD6, \hD8, \hE0, \hE2,
          \hE3, \hE4, \hE5, \hE6, \hE7, \hE8, \hE9, \hEC, \hF0, \hF1, \hF2, \hF6, \hFE >>,
       << \h7B20, \h6469, \h99AC, \h9088, \h4E07, \h534D, \h5F4E, \h66FC, \h6F2B, \h7063, \h779E,
          \h842C, \h8513, \h883B, \h9945, \h9C3B, \h551C, \h672B, \h6CAB, \h8309, \h896A, \h5984,
          \h5FD8, \h5FD9, \h671B, \h832B, \h8F1E, \h57CB, \h7164, \h8CB7, \h8CE3, \h9081, \h9B45,
          \h8108, \h8C8A, \h964C, \h9A40, \h6C13, \h840C, \h51AA, \h8993, \h68C9, \h6EC5 >> >>,
    << \hE0,
       << \hA2, \hA4, \hA9, \hB1, \hB2, \hB3, \hB6, \hBA, \hBC, \hBD, \hBE, \hBF, \hC0, \hC1, \hC3,
          \hC4, \hC5, \hC7, \hC8, \hC9, \hCA, \hCD, \hCE, \hCF, \hD0, \hD4, \hD6, \hD8, \hE0, \hE2,
          \hE3, \hE4, \hE5, \hE6, \hE7, \hE8, \hE9, \hEC, \hF0, \hF1, \hF2, \hF6, \hFE >>,
       << \h8212, \h897F, \h9F20, \h6C50, \h6DC5, \h6F5F, \h84C6, \h50CA, \h5584, \h5B0B, \h5BA3,
          \h6247, \h657E, \h65CB, \h717D, \h7401, \h7444, \h74BF, \h766C, \h79AA, \h7DDA, \h817A,
          \h81B3, \h8239, \h861A, \h9078, \h9425, \h9BAE, \h859B, \h8A2D, \h8AAA, \h96EA, \h9F67,
          \h5261, \h66B9, \h6BB2, \h7E96, \h9583, \h71EE, \hF96E, \h57CE, \h60FA, \h7B6C >> >>,
    << \hE2,
       << \hA2, \hA4, \hA9, \hB1, \hB2, \hB3, \hB6, \hBA, \hBC, \hBD, \hBE, \hBF, \hC0, \hC1, \hC3,
          \hC4, \hC5, \hC7, \hC8, \hC9, \hCA, \hCD, \hCE, \hCF, \hD0, \hD4, \hD6, \hD8, \hE0, \hE2,
          \hE3, \hE4, \hE5, \hE6, \hE7, \hE8, \hE9, \hEC, \hF0, \hF1, \hF2, \hF6, \hFE >>,
       << \h624B, \h641C, \h6C34, \h7626, \h7761, \h79C0, \h7CB9, \h7F9E, \h8331, \h8490, \h84DA,
          \h85EA, \h8896, \h8AB0, \h8F38, \h9042, \h9083, \h9296, \h92B9, \h968B, \h96A7, \h9700,
          \h9808, \h9996, \h9AD3, \h5919, \h5BBF, \h6F5A, \h5FAA, \h65EC, \h6812, \h696F, \h6A53,
          \h6B89, \h6D35, \h6DF3, \h73E3, \h7B4D, \h8340, \h84F4, \h8563, \h931E, \h5D27 >> >>,
    << \hE3,
       << \hA2, \hA4, \hA9, \hB1, \hB2, \hB3, \hB6, \hBA, \hBC, \hBD, \hBE, \hBF, \hC0, \hC1, \hC3,
          \hC4, \hC5, \hC7, \hC8, \hC9, \hCA, \hCD, \hCE, \hCF, \hD0, \hD4, \hD6, \hD8, \hE0, \hE2,
          \hE3, \hE4, \hE5, \hE6, \hE7, \hE8, \hE9, \hEC, \hF0, \hF1, \hF2, \hF6, \hFE >>,
       << \h745F, \h8768, \h8972, \h7E69, \h8805, \h965E, \h5636, \h5C4E, \h5E02, \h5F11, \h6043,
          \h65BD, \h662F, \h6642, \h67F4, \h731C, \h77E2, \h7FC5, \h8494, \h84CD, \h8996, \h8AE1,
          \h8C55, \h8C7A, \h57F4, \h62ED, \h6B96, \h7184, \h4F81, \h547B, \h5A20, \h5BB8, \h613C,
          \h65B0, \h6668, \h71FC, \h7533, \h814E, \h85CE, \h8703, \h8A0A, \h8FC5, \h6C81 >> >>,
    << \hE4,
       << \hA2, \hA4, \hA9, \hB1, \hB2, \hB3, \hB6, \hBA, \hBC, \hBD, \hBE, \hBF, \hC0, \hC1, \hC3,
          \hC4, \hC5, \hC7, \hC8, \hC9, \hCA, \hCD, \hCE, \hCF, \hD0, \hD4, \hD6, \hD8, \hE0, \hE2,
          \hE3, \hE4, \hE5, \hE6, \hE7, \hE8, \hE9, \hEC, \hF0, \hF1, \hF2, \hF6, \hFE >>,
       << \h6DF1, \h751A, \hF973, \h5CE8, \h6211, \h7259, \h86FE, \h96C5, \h9D09, \h9D5D, \h580A,
          \h5CB3, \h5DBD, \h5E44, \h6115, \h63E1, \h6A02, \h9102, \h9354, \h984E, \h9C10, \h5CB8,
          \h6309, \h664F, \h6848, \h9854, \h65A1, \h8ECB, \h83F4, \h58D3, \h62BC, \h72CE, \h9D28,
          \h4EF0, \h592E, \h600F, \h663B, \h9D26, \h5D16, \h611B, \h66D6, \h9698, \h984D >> >>,
    << \hE5,
       << \hA2, \hA4, \hA9, \hB1, \hB2, \hB3, \hB6, \hBA, \hBC, \hBD, \hBE, \hBF, \hC0, \hC1, \hC3,
          \hC4, \hC5, \hC7, \hC8, \hC9, \hCA, \hCD, \hCE, \hCF, \hD0, \hD4, \hD6, \hD8, \hE0, \hE2,
          \hE3, \hE4, \hE5, \hE6, \hE7, \hE8, \hE9, \hEC, \hF0, \hF1, \hF2, \hF6, \hFE >>,
       << \h7F4C, \h9E1A, \h60F9, \hF975, \hF976, \h7D04, \h84BB, \h4F6F, \hF979, \h58E4, \h5B43,
          \h6059, \h63DA, \h6518, \h6698, \hF97A, \h694A, \h6D0B, \h7001, \h716C, \h75D2, \h7A70,
          \hF97B, \h7F8A, \hF97C, \h91C0, \hF97E, \h5704, \h9B5A, \h5104, \h61B6, \h6291, \h6A8D,
          \h81C6, \h5043, \h5830, \h5F66, \h8AFA, \h513C, \h56B4, \h5944, \h696D, \hF982 >> >>,
    << \hE6,
       << \hA2, \hA4, \hA9, \hB1, \hB2, \hB3, \hB6, \hBA, \hBC, \hBD, \hBE, \hBF, \hC0, \hC1, \hC3,
          \hC4, \hC5, \hC7, \hC8, \hC9, \hCA, \hCD, \hCE, \hCF, \hD0, \hD4, \hD6, \hD8, \hE0, \hE2,
          \hE3, \hE4, \hE5, \hE6, \hE7, \hE8, \hE9, \hEC, \hF0, \hF1, \hF2, \hF6, \hFE >>,
       << \h6B5F, \hF984, \h8245, \hF989, \h4EA6, \hF98A, \h6613, \h7E79, \hF98D, \h9006, \h9A5B,
          \h56A5, \h5827, \h59F8, \h5BB4, \hF98E, \h5EF6, \hF990, \h6350, \h633B, \hF991, \h6CBF,
          \h6D8E, \h6D93, \h6DF5, \h7136, \hF993, \h71D5, \h7E2F, \h884D, \h8EDF, \hF998, \hF999,
          \hF99A, \h925B, \hF99B, \h9CF6, \hF99E, \h71B1, \hF9A0, \hF9A1, \hF9A3, \h82D2 >> >>,
    << \hE7,
       << \hA2, \hA4, \hA9, \hB1, \hB2, \hB3, \hB6, \hBA, \hBC, \hBD, \hBE, \hBF, \hC0, \hC1, \hC3,
          \hC4, \hC5, \hC7, \hC8, \hC9, \hCA, \hCD, \hCE, \hCF, \hD0, \hD4, \hD6, \hD8, \hE0, \hE2,
          \hE3, \hE4, \hE5, \hE6, \hE7, \hE8, \hE9, \hEC, \hF0, \hF1, \hF2, \hF6, \hFE >>,
       << \h95BB, \h9E7D, \hF9A8, \h6620, \h668E, \h6979, \h6CF3, \h701B, \h7150, \h71DF, \h7370,
          \hF9AD, \h745B, \hF9AE, \h76C8, \h7A4E, \h7E93, \hF9B0, \h82F1, \h8A60, \h8FCE, \hF9B2,
          \h9719, \hF9B3, \hF9B4, \h5208, \h66F3, \h6FCA, \h88D4, \h8B7D, \h8C6B, \hF9B7, \h92B3,
          \hF9B8, \h9713, \h9810, \h4E94, \h50B2, \h55DA, \h5862, \h58BA, \h609F, \h6FB3 >> >>,
    << \hE8,
       << \hA2, \hA4, \hA9, \hB1, \hB2, \hB3, \hB6, \hBA, \hBC, \hBD, \hBE, \hBF, \hC0, \hC1, \hC3,
          \hC4, \hC5, \hC7, \hC8, \hC9, \hCA, \hCD, \hCE, \hCF, \hD0, \hD4, \hD6, \hD8, \hE0, \hE2,
          \hE3, \hE4, \hE5, \hE6, \hE7, \hE8, \hE9, \hEC, \hF0, \hF1, \hF2, \hF6, \hFE >>,
       << \h71AC, \h7B7D, \h5C4B, \h7A69, \h7E15, \h860A, \h64C1, \h7FC1, \h96CD, \h9954, \h6E26,
          \h74E6, \h7AA9, \h7AAA, \h86D9, \h8778, \h8A1B, \h5B8C, \h5B9B, \h68A1, \h6900, \h7413,
          \h742C, \h7897, \h7DE9, \h839E, \h962E, \h66F0, \h6B6A, \h5916, \h5D6C, \h5DCD, \h7325,
          \h754F, \hF9BA, \hF9BB, \h50E5, \h592D, \hF9BC, \hF9BD, \h5DA2, \h64FE, \hF9C1 >> >>,
    << \hE9,
       << \hA2, \hA4, \hA9, \hB1, \hB2, \hB3, \hB6, \hBA, \hBC, \hBD, \hBE, \hBF, \hC0, \hC1, \hC3,
          \hC4, \hC5, \hC7, \hC8, \hC9, \hCA, \hCD, \hCE, \hCF, \hD0, \hD4, \hD6, \hD8, \hE0, \hE2,
          \hE3, \hE4, \hE5, \hE6, \hE7, \hE8, \hE9, \hEC, \hF0, \hF1, \hF2, \hF6, \hFE >>,
       << \h7AAF, \h7E5E, \h8981, \h6D74, \h7E1F, \h8925, \h50AD, \h5889, \h5EB8, \h6142, \h6995,
          \h6D8C, \h6E67, \h6EB6, \h7462, \h7528, \h752C, \h8338, \h84C9, \h8E0A, \h9394, \h4E8E,
          \h4F51, \h5076, \h512A, \h5B87, \h5C24, \h6182, \h79B9, \h7FBD, \h828B, \h85D5, \h865E,
          \h8FC2, \h9047, \h90F5, \h91EA, \h96E9, \h6631, \h682F, \h715C, \h4E91, \h8553 >> >>,
    << \hEC,
       << \hA2, \hA4, \hA9, \hB1, \hB2, \hB3, \hB6, \hBA, \hBC, \hBD, \hBE, \hBF, \hC0, \hC1, \hC3,
          \hC4, \hC5, \hC7, \hC8, \hC9, \hCA, \hCD, \hCE, \hCF, \hD0, \hD4, \hD6, \hD8, \hE0, \hE2,
          \hE3, \hE4, \hE5, \hE6, \hE7, \hE8, \hE9, \hEC, \hF0, \hF1, \hF2, \hF6, \hFE >>,
       << \h91AB, \h4EE5, \h59E8, \hF9E2, \hF9E3, \h723E, \h7570, \hF9E6, \h8033, \h8084, \h82E1,
          \h8351, \hF9E7, \hF9E8, \h8CB3, \h9087, \hF9E9, \h98F4, \h990C, \hF9EB, \hF9EC, \h7FCA,
          \h7FCC, \h7FFC, \h8B1A, \h5370, \h54BD, \h59FB, \h8335, \h8693, \h8A8D, \hF9F1, \h976D,
          \h9777, \hF9F2, \hF9F3, \h4E00, \h58F9, \h93B0, \h99B9, \h4EFB, \h6041, \h5344 >> >>,
    << \hF0,
       << \hA2, \hA4, \hA9, \hB1, \hB2, \hB3, \hB6, \hBA, \hBC, \hBD, \hBE, \hBF, \hC0, \hC1, \hC3,
          \hC4, \hC5, \hC7, \hC8, \hC9, \hCA, \hCD, \hCE, \hCF, \hD0, \hD4, \hD6, \hD8, \hE0, \hE2,
          \hE3, \hE4, \hE5, \hE6, \hE7, \hE8, \hE9, \hEC, \hF0, \hF1, \hF2, \hF6, \hFE >>,
       << \h9802, \h5236, \h5F1F, \h85BA, \h88FD, \h8AF8, \h9664, \h9F4A, \h5146, \h51CB, \h52A9,
          \h5632, \h5F14, \h5F6B, \h64CD, \h65E9, \h6641, \h66F9, \h671D, \h689D, \h68D7, \h6F6E,
          \h7167, \h71E5, \h722A, \h795A, \h7A20, \h7C97, \h8ABF, \h8E81, \h9020, \h906D, \h91E3,
          \h963B, \h96D5, \h9CE5, \h65CF, \h93C3, \h62D9, \h731D, \h5027, \h616B, \h816B >> >>,
    << \hF1,
       << \hA2, \hA4, \hA9, \hB1, \hB2, \hB3, \hB6, \hBA, \hBC, \hBD, \hBE, \hBF, \hC0, \hC1, \hC3,
          \hC4, \hC5, \hC7, \hC8, \hC9, \hCA, \hCD, \hCE, \hCF, \hD0, \hD4, \hD6, \hD8, \hE0, \hE2,
          \hE3, \hE4, \hE5, \hE6, \hE7, \hE8, \hE9, \hEC, \hF0, \hF1, \hF2, \hF6, \hFE >>,
       << \h8E35, \h9418, \h632B, \h546A, \h5468, \h55FE, \h5DDE, \h67F1, \h6CE8, \h6D32, \h6E4A,
          \h6F8D, \h70B7, \h73E0, \h7C4C, \h7D02, \h7D2C, \h821F, \h86DB, \h8A3B, \h8A85, \h8F33,
          \h9031, \h914E, \h9152, \h7CA5, \h5101, \h57C8, \h710C, \h7AE3, \h8822, \h9021, \h9075,
          \h96CB, \h99FF, \h8301, \h4E2D, \h91CD, \h6C41, \h847A, \h589E, \h70DD, \h53EA >> >>,
    << \hF2,
       << \hA2, \hA4, \hA9, \hB1, \hB2, \hB3, \hB6, \hBA, \hBC, \hBD, \hBE, \hBF, \hC0, \hC1, \hC3,
          \hC4, \hC5, \hC7, \hC8, \hC9, \hCA, \hCD, \hCE, \hCF, \hD0, \hD4, \hD6, \hD8, \hE0, \hE2,
          \hE3, \hE4, \hE5, \hE6, \hE7, \hE8, \hE9, \hEC, \hF0, \hF1, \hF2, \hF6, \hFE >>,
       << \h5730, \h5FD7, \h65E8, \h77E5, \h7825, \h7949, \h80A2, \h82B7, \h8A8C, \hF9FC, \h8D04,
          \h8DBE, \h9072, \h76F4, \h7A37, \h7E54, \h8077, \h55D4, \h5875, \h632F, \h6422, \h686D,
          \h699B, \h6B84, \h6D25, \h74A1, \h75B9, \h771E, \h8A3A, \h8EEB, \h8FB0, \h9032, \h93AD,
          \h9663, \h9673, \h9707, \h4F84, \h5AC9, \h75BE, \h79E9, \h7A92, \h8DCC, \h8F2F >> >>,
    << \hF6,
       << \hA2, \hA4, \hA9, \hB1, \hB2, \hB3, \hB6, \hBA, \hBC, \hBD, \hBE, \hBF, \hC0, \hC1, \hC3,
          \hC4, \hC5, \hC7, \hC8, \hC9, \hCA, \hCD, \hCE, \hCF, \hD0, \hD4, \hD6, \hD8, \hE0, \hE2,
          \hE3, \hE4, \hE5, \hE6, \hE7, \hE8, \hE9, \hEC, \hF0, \hF1, \hF2, \hF6, \hFE >>,
       << \h53D6, \h5634, \h805A, \h4EC4, \h53A0, \h60FB, \h4F88, \h5E5F, \h6894, \h6CBB, \h6DC4,
          \h71BE, \h75D4, \h75F4, \h7A1A, \h7A49, \h7DC7, \h7F6E, \h81F4, \h86A9, \h8F1C, \h9F52,
          \h5247, \h52C5, \h98ED, \h6F06, \h5BE2, \h6C88, \h7A31, \h4ED6, \h54A4, \h553E, \h58AE,
          \h59A5, \h60F0, \h6253, \h62D6, \h8235, \h502C, \h5353, \h5544, \hFA02, \h8A17 >> >>
  >>)

\* big5: rows << lead byte, trail bytes, code points >> of the byte pairs over ByteAlphabet that decode
big5_pairs ==
  Table(<<
    << \hA2,
       << \h41, \h43, \h45, \h48, \h57, \h61, \h63, \h64, \h65, \h69, \h6C, \h6E, \h6F, \h72, \h73,
          \h74, \h77, \h78, \h7A, \hA2, \hA4, \hA9, \hB1, \hB2, \hB3, \hB6, \hBA, \hBC, \hBD, \hBE,
          \hBF, \hC0, \hC1, \hC3, \hC4, \hC5, \hC7, \hC8, \hC9, \hCA, \hCD, \hCE, \hCF, \hD0, \hD4,
          \hD6, \hD8, \hE0, \hE2, \hE3, \hE4, \hE5, \hE6, \hE7, \hE8, \hE9, \hEC, \hF0, \hF1, \hF2,
          \hF6, \hFE >>,
       << \hFF0F, \hFF04, \h3012, \hFF05, \h33C4, \h7CCE, \h2582, \h2583, \h2584, \h2588, \h258D,
          \h258B, \h258A, \h2534, \h252C, \h2524, \h2500, \h2502, \h250C, \h2570, \h2550, \h25E3,
          \hFF12, \hFF13, \hFF14, \hFF17, \h2161, \h2163, \h2164, \h2165, \h2166, \h2167, \h2168,
          \h3021, \h3022, \h3023, \h3025, \h3026, \h3027, \h3028, \h5344, \h5345, \hFF21, \hFF22,
          \hFF26, \hFF28, \hFF2A, \hFF32, \hFF34, \hFF35, \hFF36, \hFF37, \hFF38, \hFF39, \hFF3A,
          \hFF41, \hFF44, \hFF48, \hFF49, \hFF4A, \hFF4E, \hFF56 >> >>,
    << \hA4,
       << \h41, \h43, \h45, \h48, \h57, \h61, \h63, \h64, \h65, \h69, \h6C, \h6E, \h6F, \h72, \h73,
          \h74, \h77, \h78, \h7A, \hA2, \hA4, \hA9, \hB1, \hB2, \hB3, \hB6, \hBA, \hBC, \hBD, \hBE,
          \hBF, \hC0, \hC1, \hC3, \hC4, \hC5, \hC7, \hC8, \hC9, \hCA, \hCD, \hCE, \hCF, \hD0, \hD4,
          \hD6, \hD8, \hE0, \hE2, \hE3, \hE4, \hE5, \hE6, \hE7, \hE8, \hE9, \hEC, \hF0, \hF1, \hF2,
          \hF6, \hFE >>,
       << \h4E59, \h4E03, \h4E5D, \h4EBA, \h4E0A, \h5140, \h52FA, \h5343, \h53C9, \h5915, \h5B50,
          \h5B53, \h5BF8, \h5C38, \h5C71, \h5DDD, \h5DF2, \h5DF3, \h5E72, \h4E10, \h4E2D, \h4E88,
          \h4EC3, \h4EC6, \h4EC7, \h4ECB, \h5167, \h516E, \h516C, \h5197, \h51F6, \h5206, \h5207,
          \h52FB, \h52FE, \h52FF, \h5339, \h5348, \h5347, \h5345, \h53CB, \h53CA, \h53CD, \h58EC,
          \h592D, \h5C11, \h5C3A, \h6208, \h624B, \h624E, \h652F, \h6587, \h6597, \h65A4, \h65B9,
          \h65E5, \h6728, \h6BCB, \h6BD4, \h6BDB, \h722A, \h4E19 >> >>,
    << \hA9,
       << \h41, \h43, \h45, \h48, \h57, \h61, \h63, \h64, \h65, \h69, \h6C, \h6E, \h6F, \h72, \h73,
          \h74, \h77, \h78, \h7A, \hA2, \hA4, \hA9, \hB1, \hB2, \hB3, \hB6, \hBA, \hBC, \hBD, \hBE,
          \hBF, \hC0, \hC1, \hC3, \hC4, \hC5, \hC7, \hC8, \hC9, \hCA, \hCD, \hCE, \hCF, \hD0, \hD4,
          \hD6, \hD8, \hE0, \hE2, \hE3, \hE4, \hE5, \hE6, \hE7, \hE8, \hE9, \hEC, \hF0, \hF1, \hF2,
          \hF6, \hFE >>,
       << \h5478, \h5480, \h5477, \h5486, \h576A, \h5944, \h59BE, \h59BB, \h59D4, \h59C6, \h59CB,
          \h59CA, \h59AF, \h59C5, \h5B5F, \h5B64, \h5B9A, \h5B98, \h5B99, \h5CB7, \h5CB8, \h5E18,
          \h5E97, \h5E9C, \h5E95, \h5F26, \h5F81, \h5F7C, \h5FDD, \h5FE0, \h5FFD, \h5FF5, \h5FFF,
          \h6014, \h602F, \h6035, \h602A, \h6015, \h6021, \h6027, \h601B, \h6216, \h6215, \h623F,
          \h62C9, \h62C4, \h62C2, \h62C8, \h62BD, \h62BC, \h62D0, \h62D9, \h62C7, \h62CD, \h62B5,
          \h62DA, \h62D6, \h62CE, \h653E, \h65A7, \h6613, \h660A >> >>,
    << \hB1,
       << \h41, \h43, \h45, \h48, \h57, \h61, \h63, \h64, \h65, \h69, \h6C, \h6E, \h6F, \h72, \h73,
          \h74, \h77, \h78, \h7A, \hA2, \hA4, \hA9, \hB1, \hB2, \hB3, \hB6, \hBA, \hBC, \hBD, \hBE,
          \hBF, \hC0, \hC1, \hC3, \hC4, \hC5, \hC7, \hC8, \hC9, \hCA, \hCD, \hCE, \hCF, \hD0, \hD4,
          \hD6, \hD8, \hE0, \hE2, \hE3, \hE4, \hE5, \hE6, \hE7, \hE8, \hE9, \hEC, \hF0, \hF1, \hF2,
          \hF6, \hFE >>,
       << \h5A62, \h5A46, \h5B70, \h5BC4, \h5D22, \h5E36, \h5E37, \h5EB7, \h5EB8, \h5F35, \h5F6C,
          \h5F6B, \h5F97, \h5F98, \h5FA1, \h5FA0, \h60A3, \h6089, \h60A8, \h60BB, \h60DC, \h60DF,
          \h63A7, \h6372, \h6396, \h6377, \h6371, \h6389, \h6383, \h639B, \h636B, \h63A8, \h6384,
          \h6399, \h63A1, \h63AC, \h638F, \h6380, \h637B, \h6369, \h655D, \h6556, \h6551, \h6559,
          \h6558, \h6554, \h659B, \h6664, \h6666, \h665E, \h66F9, \h52D7, \h671B, \h6881, \h68AF,
          \h68A2, \h687F, \h6897, \h68B0, \h6883, \h6885, \h6BBA >> >>,
    << \hB2,
       << \h41, \h43, \h45, \h48, \h57, \h61, \h63, \h64, \h65, \h69, \h6C, \h6E, \h6F, \h72, \h73,
          \h74, \h77, \h78, \h7A, \hA2, \hA4, \hA9, \hB1, \hB2, \hB3, \hB6, \hBA, \hBC, \hBD, \hBE,
          \hBF, \hC0, \hC1, \hC3, \hC4, \hC5, \hC7, \hC8, \hC9, \hCA, \hCD, \hCE, \hCF, \hD0, \hD4,
          \hD6, \hD8, \hE0, \hE2, \hE3, \hE4, \hE5, \hE6, \hE7, \hE8, \hE9, \hEC, \hF0, \hF1, \hF2,
          \hF6, \hFE >>,
       << \h6BEC, \h6D8E, \h6DF3, \h6DE1, \h6DF5, \h6DEE, \h6DC6, \h6DC4, \h6DAA, \h70F9, \h70FD,
          \h723D, \h727D, \h731B, \h7316, \h7313, \h7405, \h740A, \h7406, \h751C, \h7565, \h75D4,
          \h76DB, \h7737, \h773E, \h7738, \h784E, \h7968, \h796D, \h79FB, \h7A92, \h7A95, \h7B20,
          \h7B1B, \h7B2C, \h7B26, \h7B1E, \h7B2E, \h7C92, \h7C97, \h7D43, \h7D71, \h7D2E, \h7D39,
          \h7D33, \h7D2F, \h7D32, \h801C, \h8046, \h812F, \h8116, \h8123, \h812B, \h8129, \h8130,
          \h8124, \h8237, \h839E, \h8398, \h8378, \h83AB, \h837C >> >>,
    << \hB3,
       << \h41, \h43, \h45, \h48, \h57, \h61, \h63, \h64, \h65, \h69, \h6C, \h6E, \h6F, \h72, \h73,
          \h74, \h77, \h78, \h7A, \hA2, \hA4, \hA9, \hB1, \hB2, \hB3, \hB6, \hBA, \hBC, \hBD, \hBE,
          \hBF, \hC0, \hC1, \hC3, \hC4, \hC5, \hC7, \hC8, \hC9, \hCA, \hCD, \hCE, \hCF, \hD0, \hD4,
          \hD6, \hD8, \hE0, \hE2, \hE3, \hE4, \hE5, \hE6, \hE7, \hE8, \hE9, \hEC, \hF0, \hF1, \hF2,
          \hF6, \hFE >>,
       << \h83A7, \h5F6A, \h86C0, \h86B5, \h898F, \h8C49, \h8CA9, \h8CAC, \h8CAB, \h8D67, \h8DBA,
          \h8EDF, \h9019, \h9017, \h9023, \h901F, \h9015, \h901E, \h900F, \h90ED, \h9157, \h91E7,
          \h9670, \h9674, \h9676, \h96C0, \h7ADF, \h9803, \h9B5A, \h9CE5, \h9E75, \h9E7F, \h9EA5,
          \h50A2, \h508D, \h5085, \h5091, \h5080, \h5096, \h5098, \h51F1, \h5272, \h5274, \h5275,
          \h52DB, \h53A5, \h5580, \h55AA, \h5587, \h558B, \h5583, \h55B3, \h55AE, \h559F, \h553E,
          \h55B2, \h55AC, \h55AB, \h5599, \h570D, \h5824, \h5960 >> >>,
    << \hB6,
       << \h41, \h43, \h45, \h48, \h57, \h61, \h63, \h64, \h65, \h69, \h6C, \h6E, \h6F, \h72, \h73,
          \h74, \h77, \h78, \h7A, \hA2, \hA4, \hA9, \hB1, \hB2, \hB3, \hB6, \hBA, \hBC, \hBD, \hBE,
          \hBF, \hC0, \hC1, \hC3, \hC4, \hC5, \hC7, \hC8, \hC9, \hCA, \hCD, \hCE, \hCF, \hD0, \hD4,
          \hD6, \hD8, \hE0, \hE2, \hE3, \hE4, \hE5, \hE6, \hE7, \hE8, \hE9, \hEC, \hF0, \hF1, \hF2,
          \hF6, \hFE >>,
       << \h8A5B, \h8A46, \h8A3A, \h8C61, \h8D85, \h8EFB, \h8EFC, \h8F9C, \h902E, \h9032, \h90F5,
          \h90FE, \h9163, \h9214, \h9215, \h9223, \h920D, \h9210, \h9211, \h9592, \h968A, \h9686,
          \h96C7, \h96EF, \h96F2, \h9806, \h98EF, \h98F2, \h98ED, \h99AE, \h99AD, \h9EC3, \h9ECD,
          \h4E82, \h50AD, \h50B5, \h50B3, \h50C5, \h50BE, \h50AC, \h50AF, \h50C7, \h527F, \h5277,
          \h52E4, \h52E3, \h55DF, \h55E3, \h55EF, \h55DA, \h55E1, \h55C5, \h55C6, \h55E5, \h55C9,
          \h5712, \h5851, \h5854, \h586B, \h584C, \h5852, \h5ABC >> >>,
    << \hBA,
       << \h41, \h43, \h45, \h48, \h57, \h61, \h63, \h64, \h65, \h69, \h6C, \h6E, \h6F, \h72, \h73,
          \h74, \h77, \h78, \h7A, \hA2, \hA4, \hA9, \hB1, \hB2, \hB3, \hB6, \hBA, \hBC, \hBD, \hBE,
          \hBF, \hC0, \hC1, \hC3, \hC4, \hC5, \hC7, \hC8, \hC9, \hCA, \hCD, \hCE, \hCF, \hD0, \hD4,
          \hD6, \hD8, \hE0, \hE2, \hE3, \hE4, \hE5, \hE6, \hE7, \hE8, \hE9, \hEC, \hF0, \hF1, \hF2,
          \hF6, \hFE >>,
       << \h614B, \h6162, \h615F, \h6175, \h65A1, \h69AE, \h69CB, \h699B, \h69B7, \h69D0, \h69CC,
          \h69C3, \h69A3, \h6C33, \h6F33, \h6F14, \h6EF4, \h6F29, \h6F20, \h6EEF, \h6F31, \h6F2B,
          \h6EF7, \h7194, \h7199, \h7184, \h7296, \h7350, \h7464, \h7463, \h746A, \h7470, \h746D,
          \h7591, \h7627, \h760D, \h7609, \h7613, \h76E1, \h76E3, \h777F, \h7761, \h78C1, \h789F,
          \h78A3, \h798F, \h7A2E, \h7B8B, \h7B97, \h7B9D, \h7B94, \h7B8F, \h7BB8, \h7B87, \h7B84,
          \h7CB9, \h7DBB, \h7DBE, \h7DA0, \h7DCA, \h7DBA, \h7DAC >> >>,
    << \hBC,
       << \h41, \h43, \h45, \h48, \h57, \h61, \h63, \h64, \h65, \h69, \h6C, \h6E, \h6F, \h72, \h73,
          \h74, \h77, \h78, \h7A, \hA2, \hA4, \hA9, \hB1, \hB2, \hB3, \hB6, \hBA, \hBC, \hBD, \hBE,
          \hBF, \hC0, \hC1, \hC3, \hC4, \hC5, \hC7, \hC8, \hC9, \hCA, \hCD, \hCE, \hCF, \hD0, \hD4,
          \hD6, \hD8, \hE0, \hE2, \hE3, \hE4, \hE5, \hE6, \hE7, \hE8, \hE9, \hEC, \hF0, \hF1, \hF2,
          \hF6, \hFE >>,
       << \h5288, \h528D, \h52F0, \h563B, \h589E, \h5AF5, \h5B08, \h5BEE, \h5BEC, \h5C65, \h5E62,
          \h5E61, \h5EE2, \h5EDD, \h5EE3, \h5EE0, \h5FB7, \h5FB5, \h6167, \h6170, \h617E, \h61AC,
          \h6479, \h649E, \h64B2, \h64B0, \h64A9, \h64AE, \h64AD, \h64AB, \h649A, \h64AC, \h6499,
          \h64B3, \h6575, \h6577, \h66AE, \h66AB, \h66B4, \h66B1, \h69E8, \h6A01, \h6A1E, \h6A19,
          \h6A0A, \h6A02, \h69ED, \h6F7C, \h6F51, \h6F66, \h6F54, \h6F86, \h6F6D, \h6F5B, \h6F78,
          \h6F6E, \h6F70, \h6ED5, \h6F6F, \h6F60, \h71B1, \h7483 >> >>,
    << \hBD,
       << \h41, \h43, \h45, \h48, \h57, \h61, \h63, \h64, \h65, \h69, \h6C, \h6E, \h6F, \h72, \h73,
          \h74, \h77, \h78, \h7A, \hA2, \hA4, \hA9, \hB1, \hB2, \hB3, \hB6, \hBA, \hBC, \hBD, \hBE,
          \hBF, \hC0, \hC1, \hC3, \hC4, \hC5, \hC7, \hC8, \hC9, \hCA, \hCD, \hCE, \hCF, \hD0, \hD4,
          \hD6, \hD8, \hE0, \hE2, \hE3, \hE4, \hE5, \hE6, \hE7, \hE8, \hE9, \hEC, \hF0, \hF1, \hF2,
          \hF6, \hFE >>,
       << \h7480, \h7620, \h761F, \h7621, \h78D5, \h7AAE, \h7BB1, \h7BC4, \h7BB4, \h7BA0, \h7DE0,
          \h7DEF, \h7DFB, \h7DDD, \h7DE8, \h7DE3, \h7DE9, \h7D9E, \h7DF2, \h8026, \h819C, \h8517,
          \h8523, \h8521, \h8514, \h84FF, \h8776, \h8766, \h8778, \h8768, \h8759, \h8757, \h874C,
          \h885B, \h885D, \h8910, \h8912, \h8913, \h8915, \h890A, \h8AC7, \h8AC4, \h8A95, \h8ACB,
          \h8AC2, \h8AB0, \h8ACD, \h8CDE, \h8CE4, \h8CEC, \h8CED, \h8CE2, \h8CE3, \h8CDC, \h8CEA,
          \h8CE1, \h8DA3, \h8E22, \h8E0F, \h8E29, \h8EBA, \h8F1E >> >>,
    << \hBE,
       << \h41, \h43, \h45, \h48, \h57, \h61, \h63, \h64, \h65, \h69, \h6C, \h6E, \h6F, \h72, \h73,
          \h74, \h77, \h78, \h7A, \hA2, \hA4, \hA9, \hB1, \hB2, \hB3, \hB6, \hBA, \hBC, \hBD, \hBE,
          \hBF, \hC0, \hC1, \hC3, \hC4, \hC5, \hC7, \hC8, \hC9, \hCA, \hCD, \hCE, \hCF, \hD0, \hD4,
          \hD6, \hD8, \hE0, \hE2, \hE3, \hE4, \hE5, \hE6, \hE7, \hE8, \hE9, \hEC, \hF0, \hF1, \hF2,
          \hF6, \hFE >>,
       << \h9069, \h9068, \h9077, \h9127, \h92D2, \h9760, \h978B, \h978F, \h9821, \h990A, \h9918,
          \h99D0, \h99DF, \h99D5, \h99D2, \h99D9, \h9AEF, \h9B27, \h9B44, \h9EA9, \h9ECE, \h5114,
          \h52F3, \h5659, \h566B, \h5664, \h5665, \h566F, \h566C, \h5662, \h5676, \h58C1, \h58BE,
          \h58C5, \h596E, \h5B1D, \h5B78, \h5BF0, \h5C0E, \h5F4A, \h61A9, \h618A, \h61CD, \h61B6,
          \h6230, \h64C1, \h64BB, \h64D2, \h64BE, \h6574, \h66C6, \h66C9, \h66B9, \h66C4, \h66C7,
          \h66B8, \h6A3A, \h6A39, \h6A44, \h6A62, \h6A35, \h6FA1 >> >>,
    << \hBF,
       << \h41, \h43, \h45, \h48, \h57, \h61, \h63, \h64, \h65, \h69, \h6C, \h6E, \h6F, \h72, \h73,
          \h74, \h77, \h78, \h7A, \hA2, \hA4, \hA9, \hB1, \hB2, \hB3, \hB6, \hBA, \hBC, \hBD, \hBE,
          \hBF, \hC0, \hC1, \hC3, \hC4, \hC5, \hC7, \hC8, \hC9, \hCA, \hCD, \hCE, \hCF, \hD0, \hD4,
          \hD6, \hD8, \hE0, \hE2, \hE3, \hE4, \hE5, \hE6, \hE7, \hE8, \hE9, \hEC, \hF0, \hF1, \hF2,
          \hF6, \hFE >>,
       << \h6FA4, \h6FA7, \h6FC0, \h6FA6, \h7368, \h7638, \h76E7, \h76E5, \h77A0, \h78E8, \h78E7,
          \h7A4D, \h7A4E, \h7A4B, \h7ABA, \h7BD9, \h7BE4, \h7BDB, \h7BE9, \h7E08, \h7E23, \h7F79,
          \h81A8, \h81FB, \h8208, \h854A, \h8569, \h8549, \h856D, \h856A, \h855E, \h8783, \h879F,
          \h87A2, \h878D, \h8861, \h8932, \h8925, \h892B, \h8921, \h8AE6, \h8AFA, \h8AEB, \h8AF1,
          \h8AEE, \h8B01, \h8AF7, \h8CF4, \h8E31, \h8E34, \h8E42, \h8E39, \h8E35, \h8F3B, \h8F2F,
          \h8F38, \h8FA6, \h9072, \h907C, \h907A, \h9336, \h931A >> >>,
    << \hC0,
       << \h41, \h43, \h45, \h48, \h57, \h61, \h63, \h64, \h65, \h69, \h6C, \h6E, \h6F, \h72, \h73,
          \h74, \h77, \h78, \h7A, \hA2, \hA4, \hA9, \hB1, \hB2, \hB3, \hB6, \hBA, \hBC, \hBD, \hBE,
          \hBF, \hC0, \hC1, \hC3, \hC4, \hC5, \hC7, \hC8, \hC9, \hCA, \hCD, \hCE, \hCF, \hD0, \hD4,
          \hD6, \hD8, \hE0, \hE2, \hE3, \hE4, \hE5, \hE6, \hE7, \hE8, \hE9, \hEC, \hF0, \hF1, \hF2,
          \hF6, \hFE >>,
       << \h9326, \h9315, \h9319, \h96A8, \h983B, \h991A, \h99E2, \h99F1, \h9AB8, \h9B28, \h9D23,
          \h9D28, \h9D12, \h9ED4, \h9F8D, \h9F9C, \h5121, \h5132, \h568E, \h58D5, \h58D1, \h5B7A,
          \h5F4C, \h5FBD, \h61C9, \h61E6, \h64CE, \h64D8, \h64E0, \h64F0, \h64E6, \h64EC, \h64F1,
          \h64ED, \h6582, \h6583, \h66D6, \h6A80, \h6A94, \h6A84, \h6ADB, \h6AA3, \h6A7E, \h6A97,
          \h6BAE, \h6C08, \h6FF1, \h6FEC, \h6FE9, \h6FD5, \h6FEE, \h6FF0, \h71E7, \h71DF, \h71EE,
          \h71E6, \h71EC, \h7246, \h7370, \h7372, \h74A8, \h77AC >> >>,
    << \hC1,
       << \h41, \h43, \h45, \h48, \h57, \h61, \h63, \h64, \h65, \h69, \h6C, \h6E, \h6F, \h72, \h73,
          \h74, \h77, \h78, \h7A, \hA2, \hA4, \hA9, \hB1, \hB2, \hB3, \hB6, \hBA, \hBC, \hBD, \hBE,
          \hBF, \hC0, \hC1, \hC3, \hC4, \hC5, \hC7, \hC8, \hC9, \hCA, \hCD, \hCE, \hCF, \hD0, \hD4,
          \hD6, \hD8, \hE0, \hE2, \hE3, \hE4, \hE5, \hE6, \hE7, \hE8, \hE9, \hEC, \hF0, \hF1, \hF2,
          \hF6, \hFE >>,
       << \h77AD, \h78F7, \h78F4, \h79A7, \h7CD9, \h7E31, \h7E41, \h7E34, \h7E39, \h7E2F, \h7FFC,
          \h8072, \h8070, \h81C6, \h81C3, \h81BA, \h81BF, \h81BD, \h81BE, \h857E, \h8591, \h85A8,
          \h87AB, \h87BB, \h87BA, \h893B, \h893D, \h8B0E, \h8B17, \h8B19, \h8B1B, \h8B0A, \h8B20,
          \h8B04, \h8B10, \h8C41, \h8C73, \h8CFA, \h8CFD, \h8CFC, \h8DA8, \h8E49, \h8E4B, \h8E48,
          \h8F42, \h8F3F, \h907D, \h919C, \h9382, \h9328, \h9375, \h934A, \h9365, \h934B, \h9318,
          \h937E, \h9370, \h95CB, \h95CC, \h95C8, \h96D6, \h9A01 >> >>,
    << \hC3,
       << \h41, \h43, \h45, \h48, \h57, \h61, \h63, \h64, \h65, \h69, \h6C, \h6E, \h6F, \h72, \h73,
          \h74, \h77, \h78, \h7A, \hA2, \hA4, \hA9, \hB1, \hB2, \hB3, \hB6, \hBA, \hBC, \hBD, \hBE,
          \hBF, \hC0, \hC1, \hC3, \hC4, \hC5, \hC7, \hC8, \hC9, \hCA, \hCD, \hCE, \hCF, \hD0, \hD4,
          \hD6, \hD8, \hE0, \hE2, \hE3, \hE4, \hE5, \hE6, \hE7, \hE8, \hE9, \hEC, \hF0, \hF1, \hF2,
          \hF6, \hFE >>,
       << \h97F9, \h984F, \h984E, \h993E, \h9BC8, \h58DE, \h58E2, \h5BF5, \h9F90, \h61F6, \h650F,
          \h66DD, \h6AE5, \h6AD3, \h701B, \h701F, \h701D, \h7015, \h7206, \h74BD, \h74E3, \h77C7,
          \h7C3D, \h7C37, \h7C40, \h7E79, \h7E73, \h7FB9, \h7FB8, \h81D8, \h85E9, \h85DD, \h85EA,
          \h85E4, \h85E5, \h85F7, \h8805, \h880D, \h87F9, \h87FE, \h8956, \h895E, \h8B41, \h8B5C,
          \h8B4E, \h8B46, \h8D08, \h8E74, \h8F4E, \h8FAD, \h908A, \h908B, \h91B1, \h91AE, \h93E1,
          \h93D1, \h93C8, \h93E2, \h93CD, \h93D8, \h95DC, \h985E >> >>,
    << \hC4,
       << \h41, \h43, \h45, \h48, \h57, \h61, \h63, \h64, \h65, \h69, \h6C, \h6E, \h6F, \h72, \h73,
          \h74, \h77, \h78, \h7A, \hA2, \hA4, \hA9, \hB1, \hB2, \hB3, \hB6, \hBA, \hBC, \hBD, \hBE,
          \hBF, \hC0, \hC1, \hC3, \hC4, \hC5, \hC7, \hC8, \hC9, \hCA, \hCD, \hCE, \hCF, \hD0, \hD4,
          \hD6, \hD8, \hE0, \hE2, \hE3, \hE4, \hE5, \hE6, \hE7, \hE8, \hE9, \hEC, \hF0, \hF1, \hF2,
          \hF6, \hFE >>,
       << \h985B, \h9945, \h9A16, \h9BE8, \h56B7, \h61F8, \h6518, \h6514, \h6519, \h703E, \h7210,
          \h74CF, \h7662, \h792A, \h792C, \h792B, \h7C4C, \h7C43, \h7CEF, \h7F4C, \h81DA, \h85FA,
          \h89BA, \h89F8, \h8B70, \h8B6F, \h8D0D, \h8E81, \h8E85, \h8E82, \h91B4, \h91CB, \h9418,
          \h93FD, \h95E1, \h9730, \h9952, \h9951, \h99A8, \h9A2B, \h9A35, \h9C13, \h9C0D, \h9E79,
          \h9F5F, \h9F61, \h5138, \h61FE, \h651C, \h6595, \h66E9, \h6AFB, \h6B04, \h6AFA, \h6BB2,
          \h704C, \h74D6, \h7C50, \h7E8F, \h7E8C, \h861A, \h8B74 >> >>,
    << \hC5,
       << \h41, \h43, \h45, \h48, \h57, \h61, \h63, \h64, \h65, \h69, \h6C, \h6E, \h6F, \h72, \h73,
          \h74, \h77, \h78, \h7A, \hA2, \hA4, \hA9, \hB1, \hB2, \hB3, \hB6, \hBA, \hBC, \hBD, \hBE,
          \hBF, \hC0, \hC1, \hC3, \hC4, \hC5, \hC7, \hC8, \hC9, \hCA, \hCD, \hCE, \hCF, \hD0, \hD4,
          \hD6, \hD8, \hE0, \hE2, \hE3, \hE4, \hE5, \hE6, \hE7, \hE8, \hE9, \hEC, \hF0, \hF1, \hF2,
          \hF6, \hFE >>,
       << \h8B7D, \h8E8A, \h8E8B, \h91BA, \h9957, \h9DAF, \h9DC2, \h9DB8, \h9E9D, \h9F66, \h513B,
          \h56CA, \h56C9, \h5DD2, \h5F4E, \h61FF, \h6B61, \h7051, \h7380, \h7C60, \h807E, \h89FC,
          \h9444, \h9451, \h9452, \h97C3, \h9A55, \h9AD2, \h9B1A, \h9C49, \h9C31, \h9C3E, \h9C3B,
          \h9DD7, \h9F34, \h9F6C, \h9F94, \h56CC, \h5DD6, \h6200, \h652A, \h66EC, \h6B10, \h74DA,
          \h7C65, \h7E96, \h81E2, \h9460, \h9768, \h986F, \h995C, \h9A5A, \h9A5B, \h9A57, \h9AD3,
          \h9AD4, \h9C57, \h9EF4, \h56D1, \h58E9, \h7672, \h8B92 >> >>,
    << \hC7,
       << \h41, \h43, \h45, \h48, \h57, \h61, \h63, \h64, \h65, \h69, \h6C, \h6E, \h6F, \h72, \h73,
          \h74, \h77, \h78, \h7A, \hA2, \hA4, \hA9, \hB1, \hB2, \hB3, \hB6, \hBA, \hBC, \hBD, \hBE,
          \hBF, \hC0, \hC1, \hC3, \hC4, \hC5, \hC7, \hC8, \hC9, \hCA, \hCD, \hCE, \hCF, \hD0, \hD4,
          \hD6, \hD8, \hE0, \hE2, \hE3, \hE4, \hE5, \hE6, \hE7, \hE8, \hE9, \hEC, \hF0, \hF1, \hF2,
          \hF6 >>,
       << \h30A9, \h30AB, \h30AD, \h30B0, \h30BF, \h30C9, \h30CB, \h30CC, \h30CD, \h30D1, \h30D4,
          \h30D6, \h30D7, \h30DA, \h30DB, \h30DC, \h30DF, \h30E0, \h30E2, \h30E8, \h30EA, \h30EF,
          \h0414, \h0415, \h0401, \h0418, \h041C, \h0424, \h0425, \h0426, \h0427, \h0428, \h0429,
          \h042B, \h042C, \h042D, \h042F, \h0430, \h0431, \h0432, \h0435, \h0451, \h0436, \h0437,
          \h043B, \h043D, \h043F, \h0447, \h0449, \h044A, \h044B, \h044C, \h044D, \h044E, \h044F,
          \h2460, \h2463, \h2467, \h2468, \h2469, \h2477 >> >>,
    << \hC9,
       << \h41, \h43, \h45, \h48, \h57, \h61, \h63, \h64, \h65, \h69, \h6C, \h6E, \h6F, \h72, \h73,
          \h74, \h77, \h78, \h7A, \hA2, \hA4, \hA9, \hB1, \hB2, \hB3, \hB6, \hBA, \hBC, \hBD, \hBE,
          \hBF, \hC0, \hC1, \hC3, \hC4, \hC5, \hC7, \hC8, \hC9, \hCA, \hCD, \hCE, \hCF, \hD0, \hD4,
          \hD6, \hD8, \hE0, \hE2, \hE3, \hE4, \hE5, \hE6, \hE7, \hE8, \hE9, \hEC, \hF0, \hF1, \hF2,
          \hF6, \hFE >>,
       << \h4E5C, \h531A, \h4E07, \h4E8D, \h536C, \h6C14, \h4E31, \h4E3C, \h4EE8, \h4EDD, \h531C,
          \h5722, \h5723, \h5B81, \h5B84, \h5C12, \h5C73, \h5E04, \h5E82, \h6C43, \h6C3B, \h808A,
          \h4F00, \h4EF7, \h4F08, \h4F05, \h4EF4, \h51B1, \h5213, \h5209, \h5210, \h52A6, \h5322,
          \h534D, \h538A, \h5407, \h56DF, \h572E, \h572A, \h5734, \h597C, \h5985, \h597B, \h597E,
          \h5C15, \h5C7C, \h5C7B, \h5FD5, \h5FCF, \h625C, \h625E, \h6264, \h6261, \h6266, \h6262,
          \h6259, \h6265, \h6739, \h6738, \h673B, \h6733, \h6C4B >> >>,
    << \hCA,
       << \h41, \h43, \h45, \h48, \h57, \h61, \h63, \h64, \h65, \h69, \h6C, \h6E, \h6F, \h72, \h73,
          \h74, \h77, \h78, \h7A, \hA2, \hA4, \hA9, \hB1, \hB2, \hB3, \hB6, \hBA, \hBC, \hBD, \hBE,
          \hBF, \hC0, \hC1, \hC3, \hC4, \hC5, \hC7, \hC8, \hC9, \hCA, \hCD, \hCE, \hCF, \hD0, \hD4,
          \hD6, \hD8, \hE0, \hE2, \hE3, \hE4, \hE5, \hE6, \hE7, \hE8, \hE9, \hEC, \hF0, \hF1, \hF2,
          \hF6, \hFE >>,
       << \h7071, \h72B4, \h738E, \h7A75, \h9624, \h4F67, \h4F5F, \h4F41, \h4F58, \h4F61, \h521C,
          \h5221, \h52AD, \h5363, \h5372, \h538E, \h5437, \h542A, \h5445, \h544F, \h5428, \h56E5,
          \h5940, \h59A6, \h5998, \h598E, \h59A7, \h5B8E, \h5B92, \h5C28, \h5C2A, \h5C8D, \h5C8F,
          \h5C8B, \h5C89, \h5C92, \h5C86, \h5C93, \h5C95, \h5DE0, \h5E8B, \h5E89, \h5E8C, \h5E88,
          \h5F78, \h5FD2, \h5FD0, \h5FFA, \h5FF7, \h5FFB, \h6000, \h5FF4, \h623A, \h6283, \h628C,
          \h628E, \h6287, \h6270, \h6281, \h6288, \h6274, \h6747 >> >>,
    << \hCD,
       << \h41, \h43, \h45, \h48, \h57, \h61, \h63, \h64, \h65, \h69, \h6C, \h6E, \h6F, \h72, \h73,
          \h74, \h77, \h78, \h7A, \hA2, \hA4, \hA9, \hB1, \hB2, \hB3, \hB6, \hBA, \hBC, \hBD, \hBE,
          \hBF, \hC0, \hC1, \hC3, \hC4, \hC5, \hC7, \hC8, \hC9, \hCA, \hCD, \hCE, \hCF, \hD0, \hD4,
          \hD6, \hD8, \hE0, \hE2, \hE3, \hE4, \hE5, \hE6, \hE7, \hE8, \hE9, \hEC, \hF0, \hF1, \hF2,
          \hF6, \hFE >>,
       << \h6CDD, \h6C8A, \h6C80, \h6D30, \h7096, \h72D2, \h72DA, \h72CC, \h72D1, \h73A6, \h73AC,
          \h74DD, \h74E8, \h753E, \h758C, \h7598, \h76F1, \h76F0, \h77F8, \h7942, \h79C5, \h7CFD,
          \h8220, \h82A0, \h82C0, \h8298, \h82AE, \h829E, \h82BA, \h82B4, \h82A8, \h82A1, \h82A9,
          \h82A4, \h82C3, \h82B6, \h8670, \h866F, \h866D, \h866E, \h8FCB, \h8FD3, \h8FCD, \h8FD6,
          \h90B4, \h90B3, \h9639, \h4FB2, \h4FCB, \h4FC1, \h4FD4, \h4FDC, \h4FD9, \h4FBB, \h4FB3,
          \h4FDB, \h4FBA, \h5244, \h5249, \h52C0, \h5397, \h54CF >> >>,
    << \hCE,
       << \h41, \h43, \h45, \h48, \h57, \h61, \h63, \h64, \h65, \h69, \h6C, \h6E, \h6F, \h72, \h73,
          \h74, \h77, \h78, \h7A, \hA2, \hA4, \hA9, \hB1, \hB2, \hB3, \hB6, \hBA, \hBC, \hBD, \hBE,
          \hBF, \hC0, \hC1, \hC3, \hC4, \hC5, \hC7, \hC8, \hC9, \hCA, \hCD, \hCE, \hCF, \hD0, \hD4,
          \hD6, \hD8, \hE0, \hE2, \hE3, \hE4, \hE5, \hE6, \hE7, \hE8, \hE9, \hEC, \hF0, \hF1, \hF2,
          \hF6, \hFE >>,
       << \h830D, \h54AE, \h54B6, \h54A0, \h579B, \h5953, \h59DE, \h59EE, \h5A00, \h59FD, \h59E4,
          \h59F7, \h59DB, \h59F5, \h59E0, \h59FE, \h5BA8, \h5C4C, \h5CD8, \h5CDA, \h5CC7, \h5CCF,
          \h5E22, \h5E23, \h5E20, \h5EA4, \h5EA5, \h5F2E, \h5F56, \h5F86, \h6037, \h6039, \h6054,
          \h605E, \h6045, \h6053, \h6049, \h605B, \h604C, \h6040, \h6024, \h6044, \h6058, \h6066,
          \h62CF, \h630B, \h630E, \h6300, \h6314, \h62FA, \h6315, \h62FB, \h62F0, \h6541, \h6543,
          \h65AA, \h6621, \h6626, \h6622, \h6633, \h6634, \h67BA >> >>,
    << \hCF,
       << \h41, \h43, \h45, \h48, \h57, \h61, \h63, \h64, \h65, \h69, \h6C, \h6E, \h6F, \h72, \h73,
          \h74, \h77, \h78, \h7A, \hA2, \hA4, \hA9, \hB1, \hB2, \hB3, \hB6, \hBA, \hBC, \hBD, \hBE,
          \hBF, \hC0, \hC1, \hC3, \hC4, \hC5, \hC7, \hC8, \hC9, \hCA, \hCD, \hCE, \hCF, \hD0, \hD4,
          \hD6, \hD8, \hE0, \hE2, \hE3, \hE4, \hE5, \hE6, \hE7, \hE8, \hE9, \hEC, \hF0, \hF1, \hF2,
          \hF6, \hFE >>,
       << \h67BB, \h67D8, \h67B7, \h67E4, \h67FC, \h67C3, \h67CB, \h6B28, \h6B82, \h6BD8, \h6C21,
          \h6D34, \h6D2D, \h6D3F, \h6D12, \h6D0A, \h6D04, \h6D19, \h6D1A, \h6D18, \h6D03, \h6D2C,
          \h70B1, \h70B0, \h70A1, \h70A9, \h726C, \h7273, \h726E, \h72CA, \h72E4, \h72E8, \h72EB,
          \h72EA, \h72E6, \h72E3, \h73CC, \h73C2, \h73C8, \h73C5, \h73B5, \h73B4, \h73EB, \h73BF,
          \h73C6, \h73CB, \h74EE, \h7708, \h7704, \h7705, \h770A, \h76F7, \h76FB, \h76FA, \h77E7,
          \h77E8, \h7812, \h780E, \h7809, \h7803, \h794B, \h7A80 >> >>,
    << \hD0,
       << \h41, \h43, \h45, \h48, \h57, \h61, \h63, \h64, \h65, \h69, \h6C, \h6E, \h6F, \h72, \h73,
          \h74, \h77, \h78, \h7A, \hA2, \hA4, \hA9, \hB1, \hB2, \hB3, \hB6, \hBA, \hBC, \hBD, \hBE,
          \hBF, \hC0, \hC1, \hC3, \hC4, \hC5, \hC7, \hC8, \hC9, \hCA, \hCD, \hCE, \hCF, \hD0, \hD4,
          \hD6, \hD8, \hE0, \hE2, \hE3, \hE4, \hE5, \hE6, \hE7, \hE8, \hE9, \hEC, \hF0, \hF1, \hF2,
          \hF6, \hFE >>,
       << \h7AD1, \h7B01, \h7C78, \h7C80, \h80C7, \h80CA, \h80C9, \h80CF, \h80D7, \h8221, \h82FE,
          \h8307, \h82E8, \h833A, \h82EB, \h82D6, \h82E1, \h82F2, \h830C, \h82E0, \h82F3, \h8673,
          \h8A07, \h8D72, \h8FE3, \h8FE0, \h90D5, \h90BE, \h90C7, \h90CB, \h90C8, \h91D4, \h91D3,
          \h964F, \h9651, \h9653, \h964E, \h501E, \h5005, \h5007, \h5030, \h501B, \h4FF5, \h4FF4,
          \h4FF6, \h5017, \h5020, \h5193, \h51C4, \h51C5, \h51C8, \h51CE, \h5261, \h525A, \h5252,
          \h525E, \h5262, \h5526, \h54E2, \h5517, \h54E4, \h54F1 >> >>,
    << \hD4,
       << \h41, \h43, \h45, \h48, \h57, \h61, \h63, \h64, \h65, \h69, \h6C, \h6E, \h6F, \h72, \h73,
          \h74, \h77, \h78, \h7A, \hA2, \hA4, \hA9, \hB1, \hB2, \hB3, \hB6, \hBA, \hBC, \hBD, \hBE,
          \hBF, \hC0, \hC1, \hC3, \hC4, \hC5, \hC7, \hC8, \hC9, \hCA, \hCD, \hCE, \hCF, \hD0, \hD4,
          \hD6, \hD8, \hE0, \hE2, \hE3, \hE4, \hE5, \hE6, \hE7, \hE8, \hE9, \hEC, \hF0, \hF1, \hF2,
          \hF6, \hFE >>,
       << \h914F, \h91E2, \h965C, \h98E3, \h5041, \h5064, \h5040, \h506E, \h5073, \h526B, \h526E,
          \h52D3, \h532D, \h5576, \h553C, \h554D, \h552A, \h5551, \h5536, \h5532, \h554E, \h5540,
          \h57DC, \h57F4, \h5800, \h5808, \h57CF, \h57EE, \h57E3, \h57F2, \h57E5, \h57EC, \h57E1,
          \h57FC, \h5810, \h57E7, \h580C, \h57F1, \h57E9, \h57F0, \h595C, \h5A60, \h5A58, \h5A55,
          \h5A35, \h5A50, \h5A65, \h5A44, \h5A48, \h5A8E, \h5A3E, \h5A4D, \h5A39, \h5A4C, \h5A70,
          \h5A69, \h5A56, \h5B6E, \h5BC1, \h5BC0, \h5D1D, \h5D0F >> >>,
    << \hD6,
       << \h41, \h43, \h45, \h48, \h57, \h61, \h63, \h64, \h65, \h69, \h6C, \h6E, \h6F, \h72, \h73,
          \h74, \h77, \h78, \h7A, \hA2, \hA4, \hA9, \hB1, \hB2, \hB3, \hB6, \hBA, \hBC, \hBD, \hBE,
          \hBF, \hC0, \hC1, \hC3, \hC4, \hC5, \hC7, \hC8, \hC9, \hCA, \hCD, \hCE, \hCF, \hD0, \hD4,
          \hD6, \hD8, \hE0, \hE2, \hE3, \hE4, \hE5, \hE6, \hE7, \hE8, \hE9, \hEC, \hF0, \hF1, \hF2,
          \hF6, \hFE >>,
       << \h6DF2, \h6DFD, \h6DCD, \h70FA, \h70F8, \h7317, \h7311, \h7318, \h730A, \h731E, \h73F8,
          \h7404, \h7401, \h7400, \h73FA, \h73FC, \h740B, \h73F4, \h7564, \h75CC, \h75D0, \h772F,
          \h773B, \h7735, \h7848, \h784D, \h7845, \h7964, \h7967, \h7969, \h796A, \h7963, \h796B,
          \h79BB, \h79FA, \h79F8, \h79F7, \h7A8F, \h7A94, \h7A90, \h7B34, \h7B25, \h7B30, \h7B22,
          \h7B2A, \h7B31, \h7B2D, \h7C96, \h7D35, \h7D3D, \h7D38, \h7D36, \h7D3A, \h7D45, \h7D2C,
          \h7D29, \h7D3E, \h7D28, \h7F63, \h7F95, \h7FCA, \h801F >> >>,
    << \hD8,
       << \h41, \h43, \h45, \h48, \h57, \h61, \h63, \h64, \h65, \h69, \h6C, \h6E, \h6F, \h72, \h73,
          \h74, \h77, \h78, \h7A, \hA2, \hA4, \hA9, \hB1, \hB2, \hB3, \hB6, \hBA, \hBC, \hBD, \hBE,
          \hBF, \hC0, \hC1, \hC3, \hC4, \hC5, \hC7, \hC8, \hC9, \hCA, \hCD, \hCE, \hCF, \hD0, \hD4,
          \hD6, \hD8, \hE0, \hE2, \hE3, \hE4, \hE5, \hE6, \hE7, \hE8, \hE9, \hEC, \hF0, \hF1, \hF2,
          \hF6, \hFE >>,
       << \h91F7, \h91EE, \h9586, \h966D, \h5083, \h51D4, \h5311, \h53A4, \h53A7, \h55AD, \h55A2,
          \h5588, \h558F, \h55A3, \h5592, \h55A4, \h55A6, \h557F, \h55A1, \h581E, \h5823, \h581C,
          \h582D, \h582C, \h583B, \h5A94, \h5A9E, \h5AA6, \h5A7C, \h5AA5, \h5AAC, \h5A95, \h5AAE,
          \h5A84, \h5A8A, \h5A97, \h5A8B, \h5AA9, \h5A7B, \h5A7D, \h5A8F, \h5A93, \h5A9D, \h5BEA,
          \h5BD1, \h5BCE, \h5C30, \h5D51, \h5D55, \h5D33, \h5D3A, \h5D52, \h5D3D, \h5D31, \h5D59,
          \h5D42, \h5D38, \h5D40, \h5D45, \h5E44, \h5FA5, \h6114 >> >>,
    << \hE0,
       << \h41, \h43, \h45, \h48, \h57, \h61, \h63, \h64, \h65, \h69, \h6C, \h6E, \h6F, \h72, \h73,
          \h74, \h77, \h78, \h7A, \hA2, \hA4, \hA9, \hB1, \hB2, \hB3, \hB6, \hBA, \hBC, \hBD, \hBE,
          \hBF, \hC0, \hC1, \hC3, \hC4, \hC5, \hC7, \hC8, \hC9, \hCA, \hCD, \hCE, \hCF, \hD0, \hD4,
          \hD6, \hD8, \hE0, \hE2, \hE3, \hE4, \hE5, \hE6, \hE7, \hE8, \hE9, \hEC, \hF0, \hF1, \hF2,
          \hF6, \hFE >>,
       << \h89E0, \h89DC, \h8A76, \h8A61, \h8C66, \h8D8F, \h8D93, \h8D94, \h8D90, \h8DEC, \h8DD0,
          \h8DE3, \h8DE2, \h8DEB, \h8DF4, \h8F06, \h8F00, \h8F05, \h8F08, \h9049, \h9110, \h9114,
          \h923A, \h9266, \h9233, \h9283, \h926D, \h924F, \h9260, \h9267, \h926F, \h9236, \h9261,
          \h9231, \h9254, \h9263, \h9272, \h924E, \h9253, \h924C, \h959F, \h959C, \h959E, \h959B,
          \h9697, \h96FA, \h96F8, \h980E, \h98F6, \h98F9, \h99AF, \h99B2, \h99B0, \h99B5, \h9AAD,
          \h9AAB, \h9CED, \h50E6, \h50D4, \h50D7, \h50EA, \h50E0 >> >>,
    << \hE2,
       << \h41, \h43, \h45, \h48, \h57, \h61, \h63, \h64, \h65, \h69, \h6C, \h6E, \h6F, \h72, \h73,
          \h74, \h77, \h78, \h7A, \hA2, \hA4, \hA9, \hB1, \hB2, \hB3, \hB6, \hBA, \hBC, \hBD, \hBE,
          \hBF, \hC0, \hC1, \hC3, \hC4, \hC5, \hC7, \hC8, \hC9, \hCA, \hCD, \hCE, \hCF, \hD0, \hD4,
          \hD6, \hD8, \hE0, \hE2, \hE3, \hE4, \hE5, \hE6, \hE7, \hE8, \hE9, \hEC, \hF0, \hF1, \hF2,
          \hF6, \hFE >>,
       << \h69CE, \h69B0, \h69BC, \h698E, \h69B3, \h69A5, \h6B4A, \h6B4D, \h6B4B, \h6BC3, \h6ECE,
          \h6EF1, \h6F03, \h6F37, \h6EFB, \h6F2E, \h6F19, \h6F1A, \h6F18, \h6F73, \h6EEE, \h6F35,
          \h6F39, \h6F1C, \h6EFC, \h6F0D, \h7187, \h7189, \h7180, \h7185, \h7182, \h718F, \h717B,
          \h7181, \h7197, \h7244, \h7297, \h7295, \h7293, \h7343, \h734C, \h7462, \h7473, \h7471,
          \h746E, \h7502, \h757D, \h7614, \h7781, \h777C, \h7785, \h7782, \h776E, \h7780, \h776F,
          \h777E, \h78AA, \h787E, \h78AB, \h789E, \h78A2, \h7993 >> >>,
    << \hE3,
       << \h41, \h43, \h45, \h48, \h57, \h61, \h63, \h64, \h65, \h69, \h6C, \h6E, \h6F, \h72, \h73,
          \h74, \h77, \h78, \h7A, \hA2, \hA4, \hA9, \hB1, \hB2, \hB3, \hB6, \hBA, \hBC, \hBD, \hBE,
          \hBF, \hC0, \hC1, \hC3, \hC4, \hC5, \hC7, \hC8, \hC9, \hCA, \hCD, \hCE, \hCF, \hD0, \hD4,
          \hD6, \hD8, \hE0, \hE2, \hE3, \hE4, \hE5, \hE6, \hE7, \hE8, \hE9, \hEC, \hF0, \hF1, \hF2,
          \hF6, \hFE >>,
       << \h7988, \h7990, \h7A4A, \h7A28, \h7B8E, \h7CBA, \h7DB7, \h7DC2, \h7DA3, \h7DC5, \h7DC4,
          \h7DCB, \h7DCC, \h7D96, \h7DBC, \h7D9F, \h7DA9, \h7DA1, \h7F73, \h805D, \h8189, \h818C,
          \h84CE, \h84C2, \h84AC, \h84B9, \h84AA, \h84B1, \h84D0, \h849D, \h84A7, \h84BB, \h84A2,
          \h84C7, \h84CC, \h849B, \h84AF, \h84A8, \h84D6, \h8498, \h84A0, \h84D7, \h84D4, \h84D2,
          \h8661, \h8723, \h876B, \h872C, \h873E, \h8746, \h8720, \h8732, \h872A, \h872D, \h873C,
          \h8712, \h8735, \h8738, \h8724, \h871A, \h88E7, \h88FB >> >>,
    << \hE4,
       << \h41, \h43, \h45, \h48, \h57, \h61, \h63, \h64, \h65, \h69, \h6C, \h6E, \h6F, \h72, \h73,
          \h74, \h77, \h78, \h7A, \hA2, \hA4, \hA9, \hB1, \hB2, \hB3, \hB6, \hBA, \hBC, \hBD, \hBE,
          \hBF, \hC0, \hC1, \hC3, \hC4, \hC5, \hC7, \hC8, \hC9, \hCA, \hCD, \hCE, \hCF, \hD0, \hD4,
          \hD6, \hD8, \hE0, \hE2, \hE3, \hE4, \hE5, \hE6, \hE7, \hE8, \hE9, \hEC, \hF0, \hF1, \hF2,
          \hF6, \hFE >>,
       << \h88EC, \h899D, \h899F, \h89EB, \h8E09, \h8DFE, \h8E04, \h8F10, \h8F11, \h911C, \h911F,
          \h911A, \h9124, \h917A, \h9172, \h9179, \h92A4, \h9276, \h927A, \h929A, \h9279, \h928E,
          \h9286, \h928C, \h9299, \h9287, \h922D, \h96A1, \h96FF, \h9758, \h977D, \h977A, \h977E,
          \h9780, \h9782, \h977B, \h9781, \h977F, \h97CE, \h97CD, \h98AE, \h9902, \h9900, \h9907,
          \h99B9, \h99BA, \h99BD, \h9B61, \h9CF1, \h9CF2, \h9CF5, \h9EA7, \h50FF, \h5103, \h5130,
          \h50F8, \h50F6, \h50FD, \h510A, \h528B, \h5648, \h5658 >> >>,
    << \hE5,
       << \h41, \h43, \h45, \h48, \h57, \h61, \h63, \h64, \h65, \h69, \h6C, \h6E, \h6F, \h72, \h73,
          \h74, \h77, \h78, \h7A, \hA2, \hA4, \hA9, \hB1, \hB2, \hB3, \hB6, \hBA, \hBC, \hBD, \hBE,
          \hBF, \hC0, \hC1, \hC3, \hC4, \hC5, \hC7, \hC8, \hC9, \hCA, \hCD, \hCE, \hCF, \hD0, \hD4,
          \hD6, \hD8, \hE0, \hE2, \hE3, \hE4, \hE5, \hE6, \hE7, \hE8, \hE9, \hEC, \hF0, \hF1, \hF2,
          \hF6, \hFE >>,
       << \h5640, \h563D, \h563E, \h563A, \h5AF7, \h5C67, \h5D97, \h5D9F, \h5D92, \h5DA0, \h5D9A,
          \h5E69, \h5E5D, \h7DF3, \h5EDB, \h5EDE, \h5FB2, \h618B, \h6179, \h6193, \h61AD, \h618D,
          \h6485, \h6497, \h649C, \h648A, \h6468, \h6498, \h6576, \h657A, \h6579, \h657B, \h65B2,
          \h66B5, \h66B0, \h66A9, \h66B7, \h66AA, \h66AF, \h6A00, \h69E5, \h69F8, \h6A15, \h69F1,
          \h69EC, \h6A1B, \h69FE, \h6A08, \h69FB, \h6A0D, \h69FC, \h69EB, \h6A09, \h6A04, \h6A18,
          \h6A25, \h6A26, \h6B51, \h6BA5, \h6BA3, \h6C00, \h6F92 >> >>,
    << \hE6,
       << \h41, \h43, \h45, \h48, \h57, \h61, \h63, \h64, \h65, \h69, \h6C, \h6E, \h6F, \h72, \h73,
          \h74, \h77, \h78, \h7A, \hA2, \hA4, \hA9, \hB1, \hB2, \hB3, \hB6, \hBA, \hBC, \hBD, \hBE,
          \hBF, \hC0, \hC1, \hC3, \hC4, \hC5, \hC7, \hC8, \hC9, \hCA, \hCD, \hCE, \hCF, \hD0, \hD4,
          \hD6, \hD8, \hE0, \hE2, \hE3, \hE4, \hE5, \hE6, \hE7, \hE8, \hE9, \hEC, \hF0, \hF1, \hF2,
          \hF6, \hFE >>,
       << \h6F89, \h6F62, \h6F85, \h6F76, \h6F67, \h6F7B, \h71AF, \h719B, \h71B0, \h71B5, \h719E,
          \h71A1, \h71AA, \h71B3, \h7298, \h729A, \h735E, \h735F, \h735D, \h7487, \h748A, \h7488,
          \h7619, \h761D, \h761C, \h7628, \h769E, \h778D, \h778F, \h7789, \h7788, \h78CD, \h78BB,
          \h78CC, \h78D1, \h78CE, \h78C8, \h78C3, \h78C4, \h78C9, \h79A0, \h799C, \h79A2, \h799B,
          \h7AB4, \h7BB7, \h7BBE, \h7CC8, \h7CCB, \h7DF7, \h7DDB, \h7DEA, \h7DE7, \h7DD7, \h7DE1,
          \h7E03, \h7DF6, \h7DDF, \h7F76, \h7FAC, \h7FEB, \h819F >> >>,
    << \hE7,
       << \h41, \h43, \h45, \h48, \h57, \h61, \h63, \h64, \h65, \h69, \h6C, \h6E, \h6F, \h72, \h73,
          \h74, \h77, \h78, \h7A, \hA2, \hA4, \hA9, \hB1, \hB2, \hB3, \hB6, \hBA, \hBC, \hBD, \hBE,
          \hBF, \hC0, \hC1, \hC3, \hC4, \hC5, \hC7, \hC8, \hC9, \hCA, \hCD, \hCE, \hCF, \hD0, \hD4,
          \hD6, \hD8, \hE0, \hE2, \hE3, \hE4, \hE5, \hE6, \hE7, \hE8, \hE9, \hEC, \hF0, \hF1, \hF2,
          \hF6, \hFE >>,
       << \h8195, \h8199, \h8216, \h8252, \h851C, \h84F7, \h84F3, \h84FC, \h8512, \h84FE, \h852E,
          \h84FD, \h851E, \h8526, \h84E7, \h84E8, \h84F9, \h8518, \h8530, \h8763, \h8777, \h875B,
          \h8750, \h874E, \h875F, \h876C, \h8765, \h877B, \h8775, \h8762, \h8767, \h8769, \h885A,
          \h890C, \h8914, \h890B, \h8918, \h8919, \h8906, \h8916, \h8909, \h89A2, \h89A4, \h89A3,
          \h8ACF, \h8AB8, \h8AD1, \h8AD8, \h8ABA, \h8ABD, \h8AD9, \h8C3E, \h8C4D, \h8C8F, \h8CE5,
          \h8CDF, \h8CDA, \h8D9C, \h8DA1, \h8D9B, \h8E24, \h8E27 >> >>,
    << \hE8,
       << \h41, \h43, \h45, \h48, \h57, \h61, \h63, \h64, \h65, \h69, \h6C, \h6E, \h6F, \h72, \h73,
          \h74, \h77, \h78, \h7A, \hA2, \hA4, \hA9, \hB1, \hB2, \hB3, \hB6, \hBA, \hBC, \hBD, \hBE,
          \hBF, \hC0, \hC1, \hC3, \hC4, \hC5, \hC7, \hC8, \hC9, \hCA, \hCD, \hCE, \hCF, \hD0, \hD4,
          \hD6, \hD8, \hE0, \hE2, \hE3, \hE4, \hE5, \hE6, \hE7, \hE8, \hE9, \hEC, \hF0, \hF1, \hF2,
          \hF6, \hFE >>,
       << \h8E12, \h8E13, \h8E17, \h8F24, \h912A, \h9180, \h92C3, \h92C4, \h92C0, \h92F1, \h92E9,
          \h92DD, \h92CC, \h92E8, \h92CA, \h92C8, \h92CD, \h92D5, \h92E0, \h92E1, \h92B4, \h95B0,
          \h978A, \h978E, \h9788, \h981E, \h9828, \h981B, \h9827, \h98B2, \h9908, \h98FA, \h9911,
          \h9916, \h9917, \h9915, \h99CD, \h99CF, \h99D3, \h99D4, \h99D6, \h99D8, \h99CB, \h99D7,
          \h9AEB, \h9AF2, \h9B46, \h9B70, \h9B64, \h9B6C, \h9CFC, \h9CFA, \h9CFD, \h9CFF, \h9CF7,
          \h9D07, \h9CFB, \h9E83, \h9ED3, \h9F0F, \h5117, \h566E >> >>,
    << \hE9,
       << \h41, \h43, \h45, \h48, \h57, \h61, \h63, \h64, \h65, \h69, \h6C, \h6E, \h6F, \h72, \h73,
          \h74, \h77, \h78, \h7A, \hA2, \hA4, \hA9, \hB1, \hB2, \hB3, \hB6, \hBA, \hBC, \hBD, \hBE,
          \hBF, \hC0, \hC1, \hC3, \hC4, \hC5, \hC7, \hC8, \hC9, \hCA, \hCD, \hCE, \hCF, \hD0, \hD4,
          \hD6, \hD8, \hE0, \hE2, \hE3, \hE4, \hE5, \hE6, \hE7, \hE8, \hE9, \hEC, \hF0, \hF1, \hF2,
          \hF6, \hFE >>,
       << \h5666, \h566D, \h565E, \h571B, \h5B10, \h5DA7, \h5DB0, \h5DAE, \h5DAA, \h5DAF, \h5E68,
          \h5E6F, \h5EE9, \h5EE8, \h5EE5, \h5F4B, \h61A8, \h6196, \h61B4, \h61B8, \h64D7, \h64BD,
          \h657C, \h65A2, \h66C8, \h66CA, \h66BB, \h66CC, \h6723, \h6A34, \h6A66, \h6A49, \h6A67,
          \h6A68, \h6A3E, \h6A5D, \h6A76, \h6A5B, \h6A51, \h6A28, \h6A3F, \h6A41, \h6A6A, \h6A64,
          \h6A6F, \h6A60, \h6A5E, \h6B56, \h6BAA, \h6BAB, \h6BC8, \h6BC7, \h6C04, \h6C03, \h6C06,
          \h6FAD, \h6FC7, \h6F5E, \h6FC4, \h6FBD, \h7004, \h6FB8 >> >>,
    << \hEC,
       << \h41, \h43, \h45, \h48, \h57, \h61, \h63, \h64, \h65, \h69, \h6C, \h6E, \h6F, \h72, \h73,
          \h74, \h77, \h78, \h7A, \hA2, \hA4, \hA9, \hB1, \hB2, \hB3, \hB6, \hBA, \hBC, \hBD, \hBE,
          \hBF, \hC0, \hC1, \hC3, \hC4, \hC5, \hC7, \hC8, \hC9, \hCA, \hCD, \hCE, \hCF, \hD0, \hD4,
          \hD6, \hD8, \hE0, \hE2, \hE3, \hE4, \hE5, \hE6, \hE7, \hE8, \hE9, \hEC, \hF0, \hF1, \hF2,
          \hF6, \hFE >>,
       << \h92FE, \h9300, \h9316, \h95BE, \h97F0, \h99EE, \h99E5, \h99E4, \h99F0, \h99E7, \h9AB4,
          \h9AF6, \h9AFA, \h9B33, \h9B80, \h9B85, \h9B7E, \h9B7B, \h9B93, \h9B88, \h9D17, \h9D1D,
          \h9E87, \h9EAE, \h9EAD, \h9EFA, \h5125, \h5124, \h5120, \h5129, \h52F4, \h5693, \h568C,
          \h5686, \h5684, \h5683, \h5682, \h567F, \h5681, \h58D6, \h58D2, \h5B2D, \h5B25, \h5B32,
          \h5B26, \h5B2E, \h5BF1, \h61B5, \h61E7, \h61E0, \h61E5, \h61E4, \h61E8, \h61DE, \h64EF,
          \h64E9, \h64E4, \h65B6, \h65DA, \h66D2, \h6AA5, \h6A8E >> >>,
    << \hF0,
       << \h41, \h43, \h45, \h48, \h57, \h61, \h63, \h64, \h65, \h69, \h6C, \h6E, \h6F, \h72, \h73,
          \h74, \h77, \h78, \h7A, \hA2, \hA4, \hA9, \hB1, \hB2, \hB3, \hB6, \hBA, \hBC, \hBD, \hBE,
          \hBF, \hC0, \hC1, \hC3, \hC4, \hC5, \hC7, \hC8, \hC9, \hCA, \hCD, \hCE, \hCF, \hD0, \hD4,
          \hD6, \hD8, \hE0, \hE2, \hE3, \hE4, \hE5, \hE6, \hE7, \hE8, \hE9, \hEC, \hF0, \hF1, \hF2,
          \hF6, \hFE >>,
       << \h74C0, \h74C1, \h74B6, \h7514, \h790C, \h7C1C, \h7C19, \h7C20, \h7C1F, \h7C28, \h7C30,
          \h7E50, \h7E56, \h7E62, \h7E5F, \h7E51, \h7E53, \h7FB5, \h7FF7, \h825F, \h85B4, \h85B3,
          \h85C8, \h85C5, \h85B1, \h8624, \h8669, \h87E6, \h87E2, \h87DB, \h87EB, \h87EA, \h87E5,
          \h87F3, \h87E4, \h87D4, \h87D3, \h87ED, \h87D8, \h87E3, \h87D9, \h8801, \h87F4, \h87E8,
          \h894F, \h8946, \h8951, \h8B47, \h8B3C, \h8B3E, \h8B31, \h8B25, \h8B37, \h8B26, \h8B36,
          \h8B2E, \h8B3D, \h8C99, \h8C98, \h8C97, \h8D00, \h8E67 >> >>,
    << \hF1,
       << \h41, \h43, \h45, \h48, \h57, \h61, \h63, \h64, \h65, \h69, \h6C, \h6E, \h6F, \h72, \h73,
          \h74, \h77, \h78, \h7A, \hA2, \hA4, \hA9, \hB1, \hB2, \hB3, \hB6, \hBA, \hBC, \hBD, \hBE,
          \hBF, \hC0, \hC1, \hC3, \hC4, \hC5, \hC7, \hC8, \hC9, \hCA, \hCD, \hCE, \hCF, \hD0, \hD4,
          \hD6, \hD8, \hE0, \hE2, \hE3, \hE4, \hE5, \hE6, \hE7, \hE8, \hE9, \hEC, \hF0, \hF1, \hF2,
          \hF6, \hFE >>,
       << \h8E5A, \h8E5D, \h8E54, \h8F48, \h939B, \h9399, \h938D, \h93B1, \h9391, \h93B4, \h95D2,
          \h95D1, \h96B3, \h5DC2, \h96DF, \h96D8, \h9722, \h9725, \h97AE, \h97A5, \h97D9, \h9851,
          \h9A09, \h9A0D, \h9A04, \h9A05, \h9ADC, \h9B04, \h9B05, \h9B29, \h9B35, \h9B4A, \h9B4C,
          \h9BC7, \h9BC6, \h9BC3, \h9BC1, \h9BB5, \h9BB8, \h9BD3, \h9BB9, \h9BBD, \h9D5C, \h9D53,
          \h9D4B, \h9D56, \h9D57, \h9EDF, \h9F00, \h9F16, \h9F25, \h9F2B, \h9F2A, \h9F29, \h9F28,
          \h9F4C, \h5135, \h56AB, \h56AD, \h56A6, \h58DA, \h5E70 >> >>,
    << \hF2,
       << \h41, \h43, \h45, \h48, \h57, \h61, \h63, \h64, \h65, \h69, \h6C, \h6E, \h6F, \h72, \h73,
          \h74, \h77, \h78, \h7A, \hA2, \hA4, \hA9, \hB1, \hB2, \hB3, \hB6, \hBA, \hBC, \hBD, \hBE,
          \hBF, \hC0, \hC1, \hC3, \hC4, \hC5, \hC7, \hC8, \hC9, \hCA, \hCD, \hCE, \hCF, \hD0, \hD4,
          \hD6, \hD8, \hE0, \hE2, \hE3, \hE4, \hE5, \hE6, \hE7, \hE8, \hE9, \hEC, \hF0, \hF1, \hF2,
          \hF6, \hFE >>,
       << \h61FB, \h6510, \h6509, \h6584, \h6ACD, \h7021, \h7023, \h7029, \h7017, \h720C, \h7202,
          \h72A5, \h72A6, \h72A1, \h74CB, \h74C5, \h7516, \h7660, \h77CA, \h791C, \h791E, \h7C3C,
          \h7E78, \h7E70, \h7E77, \h7E72, \h7F4A, \h7F86, \h7FB7, \h7FFD, \h7FFE, \h8078, \h81D7,
          \h8264, \h8261, \h8263, \h85F1, \h85ED, \h85D9, \h85E1, \h85D7, \h85EC, \h85F2, \h85F8,
          \h85DC, \h85F0, \h85EF, \h8809, \h880B, \h8806, \h87FC, \h8808, \h87FF, \h880A, \h8802,
          \h8962, \h8957, \h895D, \h8959, \h8988, \h8B50, \h8B55 >> >>,
    << \hF6,
       << \h41, \h43, \h45, \h48, \h57, \h61, \h63, \h64, \h65, \h69, \h6C, \h6E, \h6F, \h72, \h73,
          \h74, \h77, \h78, \h7A, \hA2, \hA4, \hA9, \hB1, \hB2, \hB3, \hB6, \hBA, \hBC, \hBD, \hBE,
          \hBF, \hC0, \hC1, \hC3, \hC4, \hC5, \hC7, \hC8, \hC9, \hCA, \hCD, \hCE, \hCF, \hD0, \hD4,
          \hD6, \hD8, \hE0, \hE2, \hE3, \hE4, \hE5, \hE6, \hE7, \hE8, \hE9, \hEC, \hF0, \hF1, \hF2,
          \hF6, \hFE >>,
       << \h881D, \h8820, \h881C, \h896D, \h8F5E, \h9429, \h943C, \h9430, \h9439, \h9440, \h95E4,
          \h9735, \h973A, \h9864, \h98C9, \h98C6, \h9956, \h9A39, \h9A46, \h9ACD, \h9B17, \h9C2B,
          \h9C21, \h9DB7, \h9DB6, \h9DC7, \h9DC5, \h9DBB, \h9DB5, \h9DCE, \h9DB9, \h9DBA, \h9DAC,
          \h9DB1, \h9DAD, \h9DCC, \h9DCD, \h9DB2, \h9E7A, \h9E9C, \h9EED, \h9F1B, \h9F18, \h9F1A,
          \h9F64, \h4EB9, \h56C5, \h6521, \h6526, \h6522, \h6B0B, \h6B08, \h6B09, \h6C0D, \h7055,
          \h7056, \h721E, \h74D8, \h74D5, \h74D9, \h7935, \h7C5A >> >>
  >>)

\* gb2312: rows << lead byte, trail bytes, code points >> of the byte pairs over ByteAlphabet that decode
gb2312_pairs ==
  Table(<<
    << \hA2,
       << \hB1, \hB2, \hB3, \hB6, \hBA, \hBC, \hBD, \hBE, \hBF, \hC0, \hC1, \hC3, \hC4, \hC5, \hC7,
          \hC8, \hC9, \hCA, \hCD, \hCE, \hCF, \hD0, \hD4, \hD6, \hD8, \hE0, \hE2, \hE5, \hE6, \hE7,
          \hE8, \hE9, \hEC, \hF1, \hF2, \hF6 >>,
       << \h2488, \h2489, \h248A, \h248D, \h2491, \h2493, \h2494, \h2495, \h2496, \h2497, \h2498,
          \h249A, \h249B, \h2474, \h2476, \h2477, \h2478, \h2479, \h247C, \h247D, \h247E, \h247F,
          \h2483, \h2485, \h2487, \h2467, \h2469, \h3220, \h3221, \h3222, \h3223, \h3224, \h3227,
          \h2160, \h2161, \h2165 >> >>,
    << \hA4,
       << \hA2, \hA4, \hA9, \hB1, \hB2, \hB3, \hB6, \hBA, \hBC, \hBD, \hBE, \hBF, \hC0, \hC1, \hC3,
          \hC4, \hC5, \hC7, \hC8, \hC9, \hCA, \hCD, \hCE, \hCF, \hD0, \hD4, \hD6, \hD8, \hE0, \hE2,
          \hE3, \hE4, \hE5, \hE6, \hE7, \hE8, \hE9, \hEC, \hF0, \hF1, \hF2 >>,
       << \h3042, \h3044, \h3049, \h3051, \h3052, \h3053, \h3056, \h305A, \h305C, \h305D, \h305E,
          \h305F, \h3060, \h3061, \h3063, \h3064, \h3065, \h3067, \h3068, \h3069, \h306A, \h306D,
          \h306E, \h306F, \h3070, \h3074, \h3076, \h3078, \h3080, \h3082, \h3083, \h3084, \h3085,
          \h3086, \h3087, \h3088, \h3089, \h308C, \h3090, \h3091, \h3092 >> >>,
    << \hA9,
       << \hA4, \hA9, \hB1, \hB2, \hB3, \hB6, \hBA, \hBC, \hBD, \hBE, \hBF, \hC0, \hC1, \hC3, \hC4,
          \hC5, \hC7, \hC8, \hC9, \hCA, \hCD, \hCE, \hCF, \hD0, \hD4, \hD6, \hD8, \hE0, \hE2, \hE3,
          \hE4, \hE5, \hE6, \hE7, \hE8, \hE9, \hEC >>,
       << \h2500, \h2505, \h250D, \h250E, \h250F, \h2512, \h2516, \h2518, \h2519, \h251A, \h251B,
          \h251C, \h251D, \h251F, \h2520, \h2521, \h2523, \h2524, \h2525, \h2526, \h2529, \h252A,
          \h252B, \h252C, \h2530, \h2532, \h2534, \h253C, \h253E, \h253F, \h2540, \h2541, \h2542,
          \h2543, \h2544, \h2545, \h2548 >> >>,
    << \hB1,
       << \hA2, \hA4, \hA9, \hB1, \hB2, \hB3, \hB6, \hBA, \hBC, \hBD, \hBE, \hBF, \hC0, \hC1, \hC3,
          \hC4, \hC5, \hC7, \hC8, \hC9, \hCA, \hCD, \hCE, \hCF, \hD0, \hD4, \hD6, \hD8, \hE0, \hE2,
          \hE3, \hE4, \hE5, \hE6, \hE7, \hE8, \hE9, \hEC, \hF0, \hF1, \hF2, \hF6, \hFE >>,
       << \h96F9, \h5821, \h66B4, \h5317, \h8F88, \h80CC, \h500D, \h7119, \h5954, \h82EF, \h672C,
          \h7B28, \h5D29, \h7EF7, \h6CF5, \h8E66, \h8FF8, \h9F3B, \h6BD4, \h9119, \h7B14, \h84D6,
          \h853D, \h6BD5, \h6BD9, \h75F9, \h655D, \h5FC5, \h7F16, \h6241, \h4FBF, \h53D8, \h535E,
          \h8FA8, \h8FA9, \h8FAB, \h904D, \h8198, \h522B, \h762A, \h5F6C, \h5BBE, \h70B3 >> >>,
    << \hB2,
       << \hA2, \hA4, \hA9, \hB1, \hB2, \hB3, \hB6, \hBA, \hBC, \hBD, \hBE, \hBF, \hC0, \hC1, \hC3,
          \hC4, \hC5, \hC7, \hC8, \hC9, \hCA, \hCD, \hCE, \hCF, \hD0, \hD4, \hD6, \hD8, \hE0, \hE2,
          \hE3, \hE4, \hE5, \hE6, \hE7, \hE8, \hE9, \hEC, \hF0, \hF1, \hF2, \hF6, \hFE >>,
       << \h5E76, \h83E0, \h535A, \h8116, \h818A, \h6E24, \h6355, \h57E0, \h5E03, \h6B65, \h7C3F,
          \h90E8, \h6016, \h64E6, \h88C1, \h6750, \h624D, \h776C, \h8E29, \h91C7, \h5F69, \h9910,
          \h53C2, \h8695, \h6B8B, \h82CD, \h4ED3, \h85CF, \h4FA7, \h6D4B, \h5C42, \h8E6D, \h63D2,
          \h53C9, \h832C, \h8336, \h67E5, \h5BDF, \h62C6, \h67F4, \h8C7A, \h998B, \h7316 >> >>,
    << \hB3,
       << \hA2, \hA4, \hA9, \hB1, \hB2, \hB3, \hB6, \hBA, \hBC, \hBD, \hBE, \hBF, \hC0, \hC1, \hC3,
          \hC4, \hC5, \hC7, \hC8, \hC9, \hCA, \hCD, \hCE, \hCF, \hD0, \hD4, \hD6, \hD8, \hE0, \hE2,
          \hE3, \hE4, \hE5, \hE6, \hE7, \hE8, \hE9, \hEC, \hF0, \hF1, \hF2, \hF6, \hFE >>,
       << \h5C1D, \h957F, \h7545, \h6F6E, \h5DE2, \h5435, \h626F, \h6F88, \h81E3, \h8FB0, \h5C18,
          \h6668, \h5FF1, \h6C89, \h8D81, \h886C, \h6491, \h57CE, \h6A59, \h6210, \h5448, \h60E9,
          \h6F84, \h8BDA, \h627F, \h5403, \h6301, \h6C60, \h8D64, \h65A5, \h70BD, \h5145, \h51B2,
          \h866B, \h5D07, \h5BA0, \h62BD, \h8E0C, \h4EC7, \h7EF8, \h7785, \h51FA, \h695A >> >>,
    << \hB6,
       << \hA2, \hA4, \hA9, \hB1, \hB2, \hB3, \hB6, \hBA, \hBC, \hBD, \hBE, \hBF, \hC0, \hC1, \hC3,
          \hC4, \hC5, \hC7, \hC8, \hC9, \hCA, \hCD, \hCE, \hCF, \hD0, \hD4, \hD6, \hD8, \hE0, \hE2,
          \hE3, \hE4, \hE5, \hE6, \hE7, \hE8, \hE9, \hEC, \hF0, \hF1, \hF2, \hF6, \hFE >>,
       << \h76EF, \h9489, \h8BA2, \h4F97, \h606B, \h51BB, \h6296, \h9017, \h90FD, \h7763, \h6BD2,
          \h728A, \h72EC, \h8BFB, \h7779, \h8D4C, \h675C, \h809A, \h5EA6, \h6E21, \h5992, \h953B,
          \h6BB5, \h65AD, \h7F0E, \h5BF9, \h5428, \h6566, \h591A, \h579B, \h8EB2, \h6735, \h8DFA,
          \h8235, \h5241, \h60F0, \h5815, \h9E45, \h5A25, \h6076, \h5384, \h997F, \h4E8C >> >>,
    << \hBA,
       << \hA2, \hA4, \hA9, \hB1, \hB2, \hB3, \hB6, \hBA, \hBC, \hBD, \hBE, \hBF, \hC0, \hC1, \hC3,
          \hC4, \hC5, \hC7, \hC8, \hC9, \hCA, \hCD, \hCE, \hCF, \hD0, \hD4, \hD6, \hD8, \hE0, \hE2,
          \hE3, \hE4, \hE5, \hE6, \hE7, \hE8, \hE9, \hEC, \hF0, \hF1, \hF2, \hF6, \hFE >>,
       << \h5B69, \h6C26, \h61A8, \h7F55, \h7FF0, \h64BC, \h61BE, \h6C49, \h676D, \h822A, \h58D5,
          \h568E, \h8C6A, \h6BEB, \h597D, \h8017, \h53F7, \h5475, \h559D, \h8377, \h83CF, \h548C,
          \h4F55, \h5408, \h76D2, \h6DB8, \h8910, \h8D3A, \h4EA8, \h8861, \h6052, \h8F70, \h54C4,
          \h70D8, \h8679, \h9E3F, \h6D2A, \h7EA2, \h543C, \h539A, \h5019, \h5FFD, \h6E56 >> >>,
    << \hBC,
       << \hA2, \hA4, \hA9, \hB1, \hB2, \hB3, \hB6, \hBA, \hBC, \hBD, \hBE, \hBF, \hC0, \hC1, \hC3,
          \hC4, \hC5, \hC7, \hC8, \hC9, \hCA, \hCD, \hCE, \hCF, \hD0, \hD4, \hD6, \hD8, \hE0, \hE2,
          \hE3, \hE4, \hE5, \hE6, \hE7, \hE8, \hE9, \hEC, \hF0, \hF1, \hF2, \hF6, \hFE >>,
       << \h9965, \h6FC0, \h7F09, \h6025, \h75BE, \h6C72, \h7EA7, \h5DF1, \h6280, \h5180, \h5B63,
          \h4F0E, \h796D, \h5242, \h6D4E, \h5BC4, \h5BC2, \h8BB0, \h65E2, \h5FCC, \h9645, \h7EAA,
          \h5609, \h67B7, \h5939, \h835A, \h8D3E, \h94BE, \h76D1, \h5C16, \h7B3A, \h95F4, \h714E,
          \h517C, \h80A9, \h8270, \h5978, \h68C0, \h62E3, \h6361, \h7B80, \h8350, \h4EF6 >> >>,
    << \hBD,
       << \hA2, \hA4, \hA9, \hB1, \hB2, \hB3, \hB6, \hBA, \hBC, \hBD, \hBE, \hBF, \hC0, \hC1, \hC3,
          \hC4, \hC5, \hC7, \hC8, \hC9, \hCA, \hCD, \hCE, \hCF, \hD0, \hD4, \hD6, \hD8, \hE0, \hE2,
          \hE3, \hE4, \hE5, \hE6, \hE7, \hE8, \hE9, \hEC, \hF0, \hF1, \hF2, \hF6, \hFE >>,
       << \h8230, \h996F, \h50F5, \h5956, \h8BB2, \h5320, \h8549, \h80F6, \h90CA, \h6D47, \h9A84,
          \h5A07, \h56BC, \h6405, \h77EB, \h4FA5, \h811A, \h89D2, \h997A, \h7F34, \h7EDE, \h9175,
          \h8F7F, \h8F83, \h53EB, \h7686, \h8857, \h622A, \h6D01, \h89E3, \h59D0, \h6212, \h85C9,
          \h82A5, \h754C, \h501F, \h4ECB, \h5C4A, \h91D1, \h4ECA, \h6D25, \h4EC5, \h6D78 >> >>,
    << \hBE,
       << \hA2, \hA4, \hA9, \hB1, \hB2, \hB3, \hB6, \hBA, \hBC, \hBD, \hBE, \hBF, \hC0, \hC1, \hC3,
          \hC4, \hC5, \hC7, \hC8, \hC9, \hCA, \hCD, \hCE, \hCF, \hD0, \hD4, \hD6, \hD8, \hE0, \hE2,
          \hE3, \hE4, \hE5, \hE6, \hE7, \hE8, \hE9, \hEC, \hF0, \hF1, \hF2, \hF6, \hFE >>,
       << \h52B2, \h5162, \h4EAC, \h9888, \h9759, \h5883, \h5F84, \h7ADE, \h70AF, \h7A98, \h63EA,
          \h7A76, \h7EA0, \h7396, \h4E45, \h7078, \h4E5D, \h53A9, \h6551, \h65E7, \h81FC, \h5C31,
          \h759A, \h97A0, \h62D8, \h9A79, \h5C40, \h77E9, \h8DDD, \h952F, \h4FF1, \h53E5, \h60E7,
          \h70AC, \h5267, \h6350, \h9E43, \h7737, \h652B, \h6289, \h6398, \h51B3, \h5CFB >> >>,
    << \hBF,
       << \hA2, \hA4, \hA9, \hB1, \hB2, \hB3, \hB6, \hBA, \hBC, \hBD, \hBE, \hBF, \hC0, \hC1, \hC3,
          \hC4, \hC5, \hC7, \hC8, \hC9, \hCA, \hCD, \hCE, \hCF, \hD0, \hD4, \hD6, \hD8, \hE0, \hE2,
          \hE3, \hE4, \hE5, \hE6, \hE7, \hE8, \hE9, \hEC, \hF0, \hF1, \hF2, \hF6, \hFE >>,
       << \h7AE3, \h90E1, \h54AF, \h52D8, \h574E, \h780D, \h6177, \h4EA2, \h8003, \h62F7, \h70E4,
          \h9760, \h5777, \h82DB, \h68F5, \h78D5, \h9897, \h58F3, \h54B3, \h53EF, \h6E34, \h5BA2,
          \h8BFE, \h80AF, \h5543, \h542D, \h6050, \h63A7, \h82E6, \h5E93, \h88E4, \h5938, \h57AE,
          \h630E, \h8DE8, \h80EF, \h5757, \h5FEB, \h7B50, \h72C2, \h6846, \h51B5, \h5080 >> >>,
    << \hC0,
       << \hA2, \hA4, \hA9, \hB1, \hB2, \hB3, \hB6, \hBA, \hBC, \hBD, \hBE, \hBF, \hC0, \hC1, \hC3,
          \hC4, \hC5, \hC7, \hC8, \hC9, \hCA, \hCD, \hCE, \hCF, \hD0, \hD4, \hD6, \hD8, \hE0, \hE2,
          \hE3, \hE4, \hE5, \hE6, \hE7, \hE8, \hE9, \hEC, \hF0, \hF1, \hF2, \hF6, \hFE >>,
       << \h6127, \h5764, \h6269, \h8FA3, \h5566, \h83B1, \h84DD, \h7BEE, \h5170, \h6F9C, \h8C30,
          \h63FD, \h89C8, \h61D2, \h70C2, \h6EE5, \h7405, \h72FC, \h5ECA, \h90CE, \h6717, \h52B3,
          \h7262, \h8001, \h4F6C, \h6D9D, \h4E50, \h956D, \h7C7B, \h68F1, \h695E, \h51B7, \h5398,
          \h68A8, \h7281, \h9ECE, \h7BF1, \h6F13, \h9CA4, \h793C, \h8389, \h4E3D, \h4FD0 >> >>,
    << \hC1,
       << \hA2, \hA4, \hA9, \hB1, \hB2, \hB3, \hB6, \hBA, \hBC, \hBD, \hBE, \hBF, \hC0, \hC1, \hC3,
          \hC4, \hC5, \hC7, \hC8, \hC9, \hCA, \hCD, \hCE, \hCF, \hD0, \hD4, \hD6, \hD8, \hE0, \hE2,
          \hE3, \hE4, \hE5, \hE6, \hE7, \hE8, \hE9, \hEC, \hF0, \hF1, \hF2, \hF6, \hFE >>,
       << \h7ACB, \h6CA5, \h4FE9, \h5E18, \h655B, \h8138, \h70BC, \h6881, \h826F, \h4E24, \h8F86,
          \h91CF, \h667E, \h4EAE, \h64A9, \h804A, \h50DA, \h71CE, \h5BE5, \h8FBD, \h6F66, \h9563,
          \h5ED6, \h6599, \h5217, \h730E, \h6797, \h9716, \h62CE, \h83F1, \h96F6, \h9F84, \h94C3,
          \h4F36, \h7F9A, \h51CC, \h7075, \h9886, \h7409, \h69B4, \h786B, \h7624, \h7ABF >> >>,
    << \hC3,
       << \hA2, \hA4, \hA9, \hB1, \hB2, \hB3, \hB6, \hBA, \hBC, \hBD, \hBE, \hBF, \hC0, \hC1, \hC3,
          \hC4, \hC5, \hC7, \hC8, \hC9, \hCA, \hCD, \hCE, \hCF, \hD0, \hD4, \hD6, \hD8, \hE0, \hE2,
          \hE3, \hE4, \hE5, \hE6, \hE7, \hE8, \hE9, \hEC, \hF0, \hF1, \hF2, \hF6, \hFE >>,
       << \h8292, \h76F2, \h8305, \h5E3D, \h8C8C, \h8D38, \h679A, \h7164, \h7709, \h5A92, \h9541,
          \h6BCF, \h7F8E, \h6627, \h59B9, \h5A9A, \h95E8, \h4EEC, \h840C, \h8499, \h6AAC, \h731B,
          \h68A6, \h5B5F, \h772F, \h8FF7, \h5F25, \h79D8, \h7EF5, \h514D, \h52C9, \h5A29, \h7F05,
          \h9762, \h82D7, \h63CF, \h7784, \h6E3A, \h706D, \h6C11, \h62BF, \h95FD, \h6478 >> >>,
    << \hC4,
       << \hA2, \hA4, \hA9, \hB1, \hB2, \hB3, \hB6, \hBA, \hBC, \hBD, \hBE, \hBF, \hC0, \hC1, \hC3,
          \hC4, \hC5, \hC7, \hC8, \hC9, \hCA, \hCD, \hCE, \hCF, \hD0, \hD4, \hD6, \hD8, \hE0, \hE2,
          \hE3, \hE4, \hE5, \hE6, \hE7, \hE8, \hE9, \hEC, \hF0, \hF1, \hF2, \hF6, \hFE >>,
       << \h8611, \h819C, \h672B, \h8C0B, \h725F, \h67D0, \h4EA9, \h66AE, \h52DF, \h6155, \h6728,
          \h76EE, \h7766, \h7267, \h62FF, \h54EA, \h5450, \h90A3, \h5A1C, \h7EB3, \h6C16, \h8010,
          \h5948, \h5357, \h7537, \h8111, \h95F9, \h5462, \h6CE5, \h62DF, \h4F60, \h533F, \h817B,
          \h9006, \h6EBA, \h852B, \h62C8, \h64B5, \h917F, \h9E1F, \h5C3F, \h556E, \h5B81 >> >>,
    << \hC5,
       << \hA2, \hA4, \hA9, \hB1, \hB2, \hB3, \hB6, \hBA, \hBC, \hBD, \hBE, \hBF, \hC0, \hC1, \hC3,
          \hC4, \hC5, \hC7, \hC8, \hC9, \hCA, \hCD, \hCE, \hCF, \hD0, \hD4, \hD6, \hD8, \hE0, \hE2,
          \hE3, \hE4, \hE5, \hE6, \hE7, \hE8, \hE9, \hEC, \hF0, \hF1, \hF2, \hF6, \hFE >>,
       << \h6CDE, \h626D, \h519C, \h759F, \h632A, \h61E6, \h54E6, \h85D5, \h5076, \h6CA4, \h556A,
          \h8DB4, \h722C, \h5E15, \h7436, \h62CD, \h6392, \h5F98, \h6E43, \h6D3E, \h6500, \h78D0,
          \h76FC, \h7554, \h5224, \h65C1, \h80D6, \h5486, \h57F9, \h8D54, \h966A, \h914D, \h4F69,
          \h6C9B, \h55B7, \h76C6, \h7830, \h6F8E, \h787C, \h7BF7, \h81A8, \h78B0, \h6BD7 >> >>,
    << \hC7,
       << \hA2, \hA4, \hA9, \hB1, \hB2, \hB3, \hB6, \hBA, \hBC, \hBD, \hBE, \hBF, \hC0, \hC1, \hC3,
          \hC4, \hC5, \hC7, \hC8, \hC9, \hCA, \hCD, \hCE, \hCF, \hD0, \hD4, \hD6, \hD8, \hE0, \hE2,
          \hE3, \hE4, \hE5, \hE6, \hE7, \hE8, \hE9, \hEC, \hF0, \hF1, \hF2, \hF6, \hFE >>,
       << \h6D3D, \h6266, \h7B7E, \h6F5C, \h9063, \h6D45, \h5D4C, \h545B, \h7F8C, \h5899, \h8537,
          \h5F3A, \h62A2, \h6A47, \h6572, \h6084, \h6865, \h4E54, \h4FA8, \h5DE7, \h9798, \h5CED,
          \h4FCF, \h7A8D, \h5207, \h7A83, \h4FB5, \h79E6, \h9752, \h6C22, \h503E, \h537F, \h6E05,
          \h64CE, \h6674, \h6C30, \h60C5, \h5E86, \h4E18, \h90B1, \h7403, \h6CC5, \h6E20 >> >>,
    << \hC8,
       << \hA2, \hA4, \hA9, \hB1, \hB2, \hB3, \hB6, \hBA, \hBC, \hBD, \hBE, \hBF, \hC0, \hC1, \hC3,
          \hC4, \hC5, \hC7, \hC8, \hC9, \hCA, \hCD, \hCE, \hCF, \hD0, \hD4, \hD6, \hD8, \hE0, \hE2,
          \hE3, \hE4, \hE5, \hE6, \hE7, \hE8, \hE9, \hEC, \hF0, \hF1, \hF2, \hF6, \hFE >>,
       << \h5A36, \h8DA3, \h919B, \h7F3A, \h7094, \h7638, \h69B7, \h7FA4, \h71C3, \h5189, \h67D3,
          \h74E4, \h58E4, \h6518, \h8BA9, \h9976, \h6270, \h60F9, \h70ED, \h58EC, \h4EC1, \h97E7,
          \h4EFB, \h8BA4, \h5203, \h4ECD, \h620E, \h84C9, \h63C9, \h8089, \h8339, \h8815, \h5112,
          \h5B7A, \h5982, \h8FB1, \h4E73, \h8925, \h745E, \h9510, \h95F0, \h6492, \h53C1 >> >>,
    << \hC9,
       << \hA2, \hA4, \hA9, \hB1, \hB2, \hB3, \hB6, \hBA, \hBC, \hBD, \hBE, \hBF, \hC0, \hC1, \hC3,
          \hC4, \hC5, \hC7, \hC8, \hC9, \hCA, \hCD, \hCE, \hCF, \hD0, \hD4, \hD6, \hD8, \hE0, \hE2,
          \hE3, \hE4, \hE5, \hE6, \hE7, \hE8, \hE9, \hEC, \hF0, \hF1, \hF2, \hF6, \hFE >>,
       << \h6563, \h55D3, \h5AC2, \h6740, \h5239, \h6C99, \h5565, \h73CA, \h6749, \h5C71, \h5220,
          \h717D, \h886B, \h95EA, \h64C5, \h8D61, \h81B3, \h6C55, \h6247, \h7F2E, \h5892, \h8D4F,
          \h664C, \h4E0A, \h5C1A, \h7A0D, \h828D, \h97F6, \h820C, \h8D66, \h6444, \h5C04, \h6151,
          \h6D89, \h793E, \h8BBE, \h7837, \h4F38, \h7EC5, \h795E, \h6C88, \h80BE, \h7EF3 >> >>,
    << \hCA,
       << \hA2, \hA4, \hA9, \hB1, \hB2, \hB3, \hB6, \hBA, \hBC, \hBD, \hBE, \hBF, \hC0, \hC1, \hC3,
          \hC4, \hC5, \hC7, \hC8, \hC9, \hCA, \hCD, \hCE, \hCF, \hD0, \hD4, \hD6, \hD8, \hE0, \hE2,
          \hE3, \hE4, \hE5, \hE6, \hE7, \hE8, \hE9, \hEC, \hF0, \hF1, \hF2, \hF6, \hFE >>,
       << \h76DB, \h80DC, \h65BD, \h65F6, \h4EC0, \h98DF, \h8BC6, \h5C4E, \h59CB, \h5F0F, \h793A,
          \h58EB, \h4E16, \h67FF, \h62ED, \h8A93, \h901D, \h662F, \h55DC, \h566C, \h9002, \h91CA,
          \h9970, \h6C0F, \h5E02, \h8BD5, \h624B, \h5B88, \h67A2, \h6B8A, \h6292, \h8F93, \h53D4,
          \h8212, \h6DD1, \h758F, \h4E66, \h719F, \h7F72, \h8700, \h9ECD, \h8FF0, \h6F31 >> >>,
    << \hCD,
       << \hA2, \hA4, \hA9, \hB1, \hB2, \hB3, \hB6, \hBA, \hBC, \hBD, \hBE, \hBF, \hC0, \hC1, \hC3,
          \hC4, \hC5, \hC7, \hC8, \hC9, \hCA, \hCD, \hCE, \hCF, \hD0, \hD4, \hD6, \hD8, \hE0, \hE2,
          \hE3, \hE4, \hE5, \hE6, \hE7, \hE8, \hE9, \hEC, \hF0, \hF1, \hF2, \hF6, \hFE >>,
       << \h5EF7, \h4EAD, \h6850, \h6345, \h7B52, \h7EDF, \h6295, \h79C3, \h56FE, \h5F92, \h9014,
          \h6D82, \h5C60, \h571F, \h5154, \h6E4D, \h56E2, \h9893, \h817F, \h8715, \h892A, \h5C6F,
          \h81C0, \h62D6, \h6258, \h9A6E, \h692D, \h62D3, \h889C, \h5916, \h8C4C, \h5F2F, \h6E7E,
          \h73A9, \h987D, \h4E38, \h70F7, \h633D, \h5B9B, \h5A49, \h4E07, \h4EA1, \h5A01 >> >>,
    << \hCE,
       << \hA2, \hA4, \hA9, \hB1, \hB2, \hB3, \hB6, \hBA, \hBC, \hBD, \hBE, \hBF, \hC0, \hC1, \hC3,
          \hC4, \hC5, \hC7, \hC8, \hC9, \hCA, \hCD, \hCE, \hCF, \hD0, \hD4, \hD6, \hD8, \hE0, \hE2,
          \hE3, \hE4, \hE5, \hE6, \hE7, \hE8, \hE9, \hEC, \hF0, \hF1, \hF2, \hF6, \hFE >>,
       << \h5FAE, \h97E6, \h60DF, \h4F2A, \h5C3E, \h7EAC, \h5473, \h9B4F, \h6E2D, \h8C13, \h5C09,
          \h6170, \h536B, \h761F, \h868A, \h6587, \h95FB, \h543B, \h7A33, \h7D0A, \h95EE, \h74EE,
          \h631D, \h8717, \h6DA1, \h5367, \h6C83, \h545C, \h68A7, \h5434, \h6BCB, \h6B66, \h4E94,
          \h6342, \h5348, \h821E, \h4F0D, \h620A, \h52FF, \h52A1, \h609F, \h6790, \h727A >> >>,
    << \hCF,
       << \hA2, \hA4, \hA9, \hB1, \hB2, \hB3, \hB6, \hBA, \hBC, \hBD, \hBE, \hBF, \hC0, \hC1, \hC3,
          \hC4, \hC5, \hC7, \hC8, \hC9, \hCA, \hCD, \hCE, \hCF, \hD0, \hD4, \hD6, \hD8, \hE0, \hE2,
          \hE3, \hE4, \hE5, \hE6, \hE7, \hE8, \hE9, \hEC, \hF0, \hF1, \hF2, \hF6, \hFE >>,
       << \h606F, \h6089, \h70EF, \h5AB3, \h559C, \h94E3, \h9699, \h867E, \h971E, \h8F96, \h6687,
          \h5CE1, \h4FA0, \h72ED, \h53A6, \h590F, \h5413, \h9528, \h5148, \h4ED9, \h9C9C, \h8D24,
          \h8854, \h8237, \h95F2, \h663E, \h73B0, \h53BF, \h76F8, \h9576, \h9999, \h7BB1, \h8944,
          \h6E58, \h4E61, \h7FD4, \h7965, \h54CD, \h6A61, \h50CF, \h5411, \h9704, \h6653 >> >>,
    << \hD0,
       << \hA2, \hA4, \hA9, \hB1, \hB2, \hB3, \hB6, \hBA, \hBC, \hBD, \hBE, \hBF, \hC0, \hC1, \hC3,
          \hC4, \hC5, \hC7, \hC8, \hC9, \hCA, \hCD, \hCE, \hCF, \hD0, \hD4, \hD6, \hD8, \hE0, \hE2,
          \hE3, \hE4, \hE5, \hE6, \hE7, \hE8, \hE9, \hEC, \hF0, \hF1, \hF2, \hF6, \hFE >>,
       << \h5B5D, \h8096, \h4E9B, \h659C, \h80C1, \h8C10, \h5378, \h6CFB, \h5C51, \h85AA, \h82AF,
          \h950C, \h6B23, \h8F9B, \h5FFB, \h5FC3, \h4FE1, \h661F, \h8165, \h7329, \h60FA, \h578B,
          \h5F62, \h90A2, \h884C, \h6027, \h5144, \h80F8, \h673D, \h9508, \h79C0, \h8896, \h7EE3,
          \h589F, \h620C, \h9700, \h865A, \h5F90, \h53D9, \h65ED, \h5E8F, \h5A7F, \h7384 >> >>,
    << \hD4,
       << \hA2, \hA4, \hA9, \hB1, \hB2, \hB3, \hB6, \hBA, \hBC, \hBD, \hBE, \hBF, \hC0, \hC1, \hC3,
          \hC4, \hC5, \hC7, \hC8, \hC9, \hCA, \hCD, \hCE, \hCF, \hD0, \hD4, \hD6, \hD8, \hE0, \hE2,
          \hE3, \hE4, \hE5, \hE6, \hE7, \hE8, \hE9, \hEC, \hF0, \hF1, \hF2, \hF6, \hFE >>,
       << \h5BD3, \h9884, \h51A4, \h5458, \h5706, \h733F, \h8FDC, \h9662, \h7EA6, \h8D8A, \h8DC3,
          \h94A5, \h5CB3, \h7CA4, \h60A6, \h9605, \h8018, \h90E7, \h5300, \h9668, \h5141, \h915D,
          \h6655, \h97F5, \h5B55, \h683D, \h707E, \h8F7D, \h810F, \h906D, \h7CDF, \h51FF, \h85FB,
          \h67A3, \h65E9, \h6FA1, \h86A4, \h9020, \h8D23, \h62E9, \h5219, \h589E, \h8F67 >> >>,
    << \hD6,
       << \hA2, \hA4, \hA9, \hB1, \hB2, \hB3, \hB6, \hBA, \hBC, \hBD, \hBE, \hBF, \hC0, \hC1, \hC3,
          \hC4, \hC5, \hC7, \hC8, \hC9, \hCA, \hCD, \hCE, \hCF, \hD0, \hD4, \hD6, \hD8, \hE0, \hE2,
          \hE3, \hE4, \hE5, \hE6, \hE7, \hE8, \hE9, \hEC, \hF0, \hF1, \hF2, \hF6, \hFE >>,
       << \h75C7, \h8BC1, \h8718, \h76F4, \h690D, \h6B96, \h4F84, \h8DBE, \h65E8, \h7EB8, \h5FD7,
          \h631A, \h63B7, \h81F3, \h7F6E, \h5E1C, \h5CD9, \h667A, \h79E9, \h7A1A, \h8D28, \h6EDE,
          \h6CBB, \h7A92, \h4E2D, \h8877, \h79CD, \h91CD, \h7CA5, \h8098, \h5E1A, \h5492, \h76B1,
          \h5B99, \h663C, \h9AA4, \h73E0, \h6731, \h9010, \h7AF9, \h70DB, \h5631, \h7B51 >> >>,
    << \hD8,
       << \hA2, \hA4, \hA9, \hB1, \hB2, \hB3, \hB6, \hBA, \hBC, \hBD, \hBE, \hBF, \hC0, \hC1, \hC3,
          \hC4, \hC5, \hC7, \hC8, \hC9, \hCA, \hCD, \hCE, \hCF, \hD0, \hD4, \hD6, \hD8, \hE0, \hE2,
          \hE3, \hE4, \hE5, \hE6, \hE7, \hE8, \hE9, \hEC, \hF0, \hF1, \hF2, \hF6, \hFE >>,
       << \h4E0C, \h4E10, \h4E1E, \h4E47, \h592D, \h723B, \h56DF, \h777E, \h4E36, \h4E9F, \h9F10,
          \h4E5C, \h4E69, \h4E93, \h5B5B, \h556C, \h560F, \h538D, \h539D, \h53A3, \h53A5, \h8D5D,
          \h531A, \h53F5, \h5326, \h5366, \h5202, \h520E, \h525C, \h527D, \h5282, \h5281, \h5290,
          \h5293, \h5182, \h7F54, \h4EBB, \h4EC2, \h4EDE, \h4F1B, \h4EF3, \h4F25, \h4F5D >> >>,
    << \hE0,
       << \hA2, \hA4, \hA9, \hB1, \hB2, \hB3, \hB6, \hBA, \hBC, \hBD, \hBE, \hBF, \hC0, \hC1, \hC3,
          \hC4, \hC5, \hC7, \hC8, \hC9, \hCA, \hCD, \hCE, \hCF, \hD0, \hD4, \hD6, \hD8, \hE0, \hE2,
          \hE3, \hE4, \hE5, \hE6, \hE7, \hE8, \hE9, \hEC, \hF0, \hF1, \hF2, \hF6, \hFE >>,
       << \h5556, \h5576, \h558B, \h557E, \h55D6, \h5591, \h55BD, \h55EA, \h55C9, \h561F, \h55D1,
          \h55EB, \h55EC, \h55D4, \h55DD, \h55C4, \h55EF, \h55F2, \h55F3, \h55CC, \h55CD, \h55E4,
          \h8F94, \h561E, \h5608, \h5623, \h5600, \h562D, \h565C, \h5654, \h5686, \h5664, \h5671,
          \h566B, \h567B, \h567C, \h5685, \h56D4, \h56F5, \h56EB, \h56F9, \h5709, \h5E3C >> >>,
    << \hE2,
       << \hA2, \hA4, \hA9, \hB1, \hB2, \hB3, \hB6, \hBA, \hBC, \hBD, \hBE, \hBF, \hC0, \hC1, \hC3,
          \hC4, \hC5, \hC7, \hC8, \hC9, \hCA, \hCD, \hCE, \hCF, \hD0, \hD4, \hD6, \hD8, \hE0, \hE2,
          \hE3, \hE4, \hE5, \hE6, \hE7, \hE8, \hE9, \hEC, \hF0, \hF1, \hF2, \hF6, \hFE >>,
       << \h7317, \h7321, \h7322, \h7357, \h7360, \h736C, \h821B, \h5902, \h9967, \h9968, \h9969,
          \h996A, \h996B, \h996C, \h9977, \h997D, \h9980, \h9987, \h998A, \h998D, \h9990, \h9994,
          \h9995, \h5E80, \h5E91, \h5EA0, \h5EB5, \h5EB3, \h5FC4, \h5FD6, \h5FCF, \h6003, \h5FEE,
          \h6004, \h5FE1, \h5FE4, \h5FFE, \h5FEA, \h6035, \h6026, \h601B, \h602B, \h6042 >> >>,
    << \hE3,
       << \hA2, \hA4, \hA9, \hB1, \hB2, \hB3, \hB6, \hBA, \hBC, \hBD, \hBE, \hBF, \hC0, \hC1, \hC3,
          \hC4, \hC5, \hC7, \hC8, \hC9, \hCA, \hCD, \hCE, \hCF, \hD0, \hD4, \hD6, \hD8, \hE0, \hE2,
          \hE3, \hE4, \hE5, \hE6, \hE7, \hE8, \hE9, \hEC, \hF0, \hF1, \hF2, \hF6, \hFE >>,
       << \h607D, \h609A, \h608C, \h60DA, \h60B4, \h6120, \h6123, \h612B, \h6175, \h61AC, \h6194,
          \h61A7, \h61B7, \h61D4, \h5FDD, \h96B3, \h95E9, \h95F1, \h95F3, \h95F5, \h95F6, \h9603,
          \h9604, \h9606, \h9608, \h960D, \h9612, \h9616, \h6C54, \h6C4A, \h6CA3, \h6C85, \h6C90,
          \h6C94, \h6C8C, \h6C68, \h6C69, \h6C86, \h6CAD, \h6CF7, \h6CF8, \h6CE0, \h6CFE >> >>,
    << \hE4,
       << \hA2, \hA4, \hA9, \hB1, \hB2, \hB3, \hB6, \hBA, \hBC, \hBD, \hBE, \hBF, \hC0, \hC1, \hC3,
          \hC4, \hC5, \hC7, \hC8, \hC9, \hCA, \hCD, \hCE, \hCF, \hD0, \hD4, \hD6, \hD8, \hE0, \hE2,
          \hE3, \hE4, \hE5, \hE6, \hE7, \hE8, \hE9, \hEC, \hF0, \hF1, \hF2, \hF6, \hFE >>,
       << \h6D27, \h6D43, \h6D0E, \h6D54, \h6D33, \h6D91, \h6DA0, \h6D5C, \h6D7C, \h6D63, \h6E1A,
          \h6DC7, \h6DC5, \h6DDE, \h6DBF, \h6DE0, \h6E11, \h6DDD, \h6DD9, \h6E16, \h6DAB, \h6E2B,
          \h6E6E, \h6E4E, \h6E6B, \h6E53, \h6E32, \h6E44, \h6EA7, \h6EBB, \h6EB7, \h6ED7, \h6EB4,
          \h6ECF, \h6E8F, \h6EC2, \h6E9F, \h6F47, \h6F2F, \h6F36, \h6F4B, \h6F29, \h6FD1 >> >>,
    << \hE5,
       << \hA2, \hA4, \hA9, \hB1, \hB2, \hB3, \hB6, \hBA, \hBC, \hBD, \hBE, \hBF, \hC0, \hC1, \hC3,
          \hC4, \hC5, \hC7, \hC8, \hC9, \hCA, \hCD, \hCE, \hCF, \hD0, \hD4, \hD6, \hD8, \hE0, \hE2,
          \hE3, \hE4, \hE5, \hE6, \hE7, \hE8, \hE9, \hEC, \hF0, \hF1, \hF2, \hF6, \hFE >>,
       << \h6FA7, \h6FB6, \h6FE0, \h705E, \h5B80, \h5B84, \h5BA5, \h6434, \h5BEE, \h8930, \h5BF0,
          \h8E47, \h8B07, \h8FB6, \h8FD5, \h8FE5, \h8FEE, \h8FE9, \h8FE6, \h8FF3, \h8FE8, \h900B,
          \h9026, \h9011, \h900D, \h9036, \h902F, \h9051, \h9074, \h9082, \h9088, \h9083, \h908B,
          \h5F50, \h5F57, \h5F56, \h5F58, \h5C50, \h5C66, \h7FBC, \h5F2A, \h5F3C, \h59A3 >> >>,
    << \hE6,
       << \hA2, \hA4, \hA9, \hB1, \hB2, \hB3, \hB6, \hBA, \hBC, \hBD, \hBE, \hBF, \hC0, \hC1, \hC3,
          \hC4, \hC5, \hC7, \hC8, \hC9, \hCA, \hCD, \hCE, \hCF, \hD0, \hD4, \hD6, \hD8, \hE0, \hE2,
          \hE3, \hE4, \hE5, \hE6, \hE7, \hE8, \hE9, \hEC, \hF0, \hF1, \hF2, \hF6, \hFE >>,
       << \h59CA, \h599E, \h59D7, \h59F9, \h5A0C, \h5A09, \h5A11, \h5A67, \h5A55, \h5A3C, \h5A62,
          \h5A75, \h80EC, \h5AAA, \h5A77, \h5A7A, \h5ABE, \h5AB2, \h5AD2, \h5AD4, \h5AB8, \h5AF1,
          \h5AD6, \h5AE6, \h5AD8, \h5B16, \h5B37, \h5C15, \h9A75, \h9A78, \h9A7A, \h9A7F, \h9A7D,
          \h9A80, \h9A81, \h9A85, \h9A88, \h9A92, \h9A9B, \h9A9C, \h9A9D, \h9AA3, \h7EA9 >> >>,
    << \hE7,
       << \hA2, \hA4, \hA9, \hB1, \hB2, \hB3, \hB6, \hBA, \hBC, \hBD, \hBE, \hBF, \hC0, \hC1, \hC3,
          \hC4, \hC5, \hC7, \hC8, \hC9, \hCA, \hCD, \hCE, \hCF, \hD0, \hD4, \hD6, \hD8, \hE0, \hE2,
          \hE3, \hE4, \hE5, \hE6, \hE7, \hE8, \hE9, \hEC, \hF0, \hF1, \hF2, \hF6, \hFE >>,
       << \h7EB0, \h7EC0, \h7ECC, \h7EEB, \h7EEE, \h7EEF, \h7F0D, \h7EFE, \h7F02, \h7F03, \h7F07,
          \h7F08, \h7F0B, \h7F0C, \h7F11, \h7F12, \h7F17, \h7F1C, \h7F1B, \h7F1F, \h7F21, \h7F24,
          \h7F25, \h7F26, \h7F27, \h7F2D, \h7F30, \h7F32, \h738E, \h73AE, \h73A2, \h739F, \h73CF,
          \h73C2, \h73D1, \h73B7, \h73B3, \h73C8, \h740A, \h73E9, \h73E7, \h740F, \h742C >> >>,
    << \hE8,
       << \hA2, \hA4, \hA9, \hB1, \hB2, \hB3, \hB6, \hBA, \hBC, \hBD, \hBE, \hBF, \hC0, \hC1, \hC3,
          \hC4, \hC5, \hC7, \hC8, \hC9, \hCA, \hCD, \hCE, \hCF, \hD0, \hD4, \hD6, \hD8, \hE0, \hE2,
          \hE3, \hE4, \hE5, \hE6, \hE7, \hE8, \hE9, \hEC, \hF0, \hF1, \hF2, \hF6, \hFE >>,
       << \h741A, \h745C, \h746D, \h749E, \h74A8, \h74A9, \h74D2, \h97EC, \h6753, \h675E, \h6748,
          \h6769, \h67A5, \h6787, \h6773, \h6798, \h67A7, \h67A8, \h679E, \h67AD, \h678B, \h67F0,
          \h6809, \h67D8, \h680A, \h67D9, \h67DA, \h67DD, \h6832, \h6860, \h6861, \h684E, \h6862,
          \h6844, \h6864, \h6883, \h681D, \h6841, \h684A, \h6849, \h6829, \h6877, \h68F9 >> >>,
    << \hE9,
       << \hA2, \hA4, \hA9, \hB1, \hB2, \hB3, \hB6, \hBA, \hBC, \hBD, \hBE, \hBF, \hC0, \hC1, \hC3,
          \hC4, \hC5, \hC7, \hC8, \hC9, \hCA, \hCD, \hCE, \hCF, \hD0, \hD4, \hD6, \hD8, \hE0, \hE2,
          \hE3, \hE4, \hE5, \hE6, \hE7, \hE8, \hE9, \hEC, \hF0, \hF1, \hF2, \hF6, \hFE >>,
       << \h68F0, \h6901, \h6939, \h6978, \h6934, \h69CC, \h69CE, \h6979, \h69A7, \h69BB, \h69AB,
          \h69AD, \h69D4, \h69B1, \h69CA, \h69DF, \h6995, \h698D, \h69FF, \h6A2F, \h69ED, \h6A65,
          \h69F2, \h6A44, \h6A3E, \h6A35, \h6A79, \h6A28, \h7337, \h6B81, \h6B82, \h6B87, \h6B84,
          \h6B92, \h6B93, \h6B8D, \h6B9A, \h6BAA, \h8F72, \h8F73, \h8F75, \h8F79, \h8F8B >> >>,
    << \hEC,
       << \hA2, \hA4, \hA9, \hB1, \hB2, \hB3, \hB6, \hBA, \hBC, \hBD, \hBE, \hBF, \hC0, \hC1, \hC3,
          \hC4, \hC5, \hC7, \hC8, \hC9, \hCA, \hCD, \hCE, \hCF, \hD0, \hD4, \hD6, \hD8, \hE0, \hE2,
          \hE3, \hE4, \hE5, \hE6, \hE7, \hE8, \hE9, \hEC, \hF0, \hF1, \hF2, \hF6, \hFE >>,
       << \h81A6, \h6B37, \h98D1, \h6BC2, \h89F3, \h6590, \h65BC, \h65CC, \h65D2, \h65D6, \h7080,
          \h709C, \h7096, \h709D, \h70C0, \h70B7, \h70AB, \h70E8, \h70CA, \h7110, \h7113, \h7131,
          \h7173, \h715C, \h7168, \h7178, \h7198, \h71B5, \h7228, \h7118, \h7166, \h71B9, \h623E,
          \h623D, \h6243, \h6248, \h6249, \h7946, \h7953, \h795A, \h7962, \h7967, \h5FD0 >> >>,
    << \hF0,
       << \hA2, \hA4, \hA9, \hB1, \hB2, \hB3, \hB6, \hBA, \hBC, \hBD, \hBE, \hBF, \hC0, \hC1, \hC3,
          \hC4, \hC5, \hC7, \hC8, \hC9, \hCA, \hCD, \hCE, \hCF, \hD0, \hD4, \hD6, \hD8, \hE0, \hE2,
          \hE3, \hE4, \hE5, \hE6, \hE7, \hE8, \hE9, \hEC, \hF0, \hF1, \hF2, \hF6, \hFE >>,
       << \h7A37, \h9ECF, \h7693, \h9E28, \h9E29, \h9E2A, \h9E32, \h9E37, \h9E3A, \h9E3E, \h9E41,
          \h9E42, \h9E44, \h9E46, \h9E48, \h9E49, \h9E4B, \h9E4E, \h9E51, \h9E55, \h9E57, \h9E5C,
          \h9E5E, \h9E63, \h9E66, \h9E6A, \h9E6C, \h9E6D, \h75A3, \h75B4, \h75B8, \h75C4, \h75B1,
          \h75B0, \h75C3, \h75C2, \h75D6, \h75E8, \h75E7, \h7603, \h75F1, \h7600, \h7619 >> >>,
    << \hF1,
       << \hA2, \hA4, \hA9, \hB1, \hB2, \hB3, \hB6, \hBA, \hBC, \hBD, \hBE, \hBF, \hC0, \hC1, \hC3,
          \hC4, \hC5, \hC7, \hC8, \hC9, \hCA, \hCD, \hCE, \hCF, \hD0, \hD4, \hD6, \hD8, \hE0, \hE2,
          \hE3, \hE4, \hE5, \hE6, \hE7, \hE8, \hE9, \hEC, \hF0, \hF1, \hF2, \hF6, \hFE >>,
       << \h763C, \h7620, \h7635, \h7656, \h766B, \h766F, \h7A78, \h7A88, \h7AA6, \h7AA0, \h7AAC,
          \h7AA8, \h7AAD, \h7AB3, \h8869, \h8872, \h887D, \h8882, \h88A2, \h88C6, \h88B7, \h88E2,
          \h88CE, \h88E3, \h88E5, \h88E8, \h88F0, \h8919, \h8966, \h758B, \h80E5, \h76B2, \h76B4,
          \h77DC, \h8012, \h8014, \h8016, \h8022, \h8029, \h8028, \h8031, \h8046, \h9883 >> >>,
    << \hF2,
       << \hA2, \hA4, \hA9, \hB1, \hB2, \hB3, \hB6, \hBA, \hBC, \hBD, \hBE, \hBF, \hC0, \hC1, \hC3,
          \hC4, \hC5, \hC7, \hC8, \hC9, \hCA, \hCD, \hCE, \hCF, \hD0, \hD4, \hD6, \hD8, \hE0, \hE2,
          \hE3, \hE4, \hE5, \hE6, \hE7, \hE8, \hE9, \hEC, \hF0, \hF1, \hF2, \hF6, \hFE >>,
       << \h988C, \h988F, \h989F, \h866E, \h867F, \h867A, \h86A8, \h869D, \h86A3, \h86AA, \h8693,
          \h86A9, \h86B6, \h86C4, \h86CE, \h86B0, \h86BA, \h86AF, \h86C9, \h86CF, \h86B4, \h86F2,
          \h86ED, \h86F3, \h86D0, \h86DF, \h86D1, \h8707, \h871E, \h872E, \h871A, \h873E, \h8748,
          \h8734, \h8731, \h8729, \h8737, \h8722, \h8760, \h8770, \h874C, \h8763, \h87D2 >> >>,
    << \hF6,
       << \hA2, \hA4, \hA9, \hB1, \hB2, \hB3, \hB6, \hBA, \hBC, \hBD, \hBE, \hBF, \hC0, \hC1, \hC3,
          \hC4, \hC5, \hC7, \hC8, \hC9, \hCA, \hCD, \hCE, \hCF, \hD0, \hD4, \hD6, \hD8, \hE0, \hE2,
          \hE3, \hE4, \hE5, \hE6, \hE7, \hE8, \hE9, \hEC, \hF0, \hF1, \hF2, \hF6, \hFE >>,
       << \h89EB, \h8A3E, \h96EF, \h9730, \h973E, \h9F80, \h9F86, \h9F8A, \h9EFE, \h9F0B, \h9F0D,
          \h96B9, \h96BC, \h96BD, \h96D2, \h77BF, \h96E0, \h92AE, \h92C8, \h933E, \h936A, \h943E,
          \h946B, \h9C7F, \h9C82, \h9C88, \h9C8B, \h9C90, \h9C9F, \h9CA1, \h9CA2, \h9CA3, \h9CA5,
          \h9CA6, \h9CA7, \h9CA8, \h9CA9, \h9CAE, \h9CB3, \h9CB4, \h9CB5, \h9CBB, \h9CCB >> >>
  >>)

\* gbk: the byte pairs over ByteAlphabet that gbk decodes and gb2312 does not
gbkext_pairs ==
  Table(<<
    << \h81,
       << \h41, \h43, \h45, \h48, \h57, \h61, \h63, \h64, \h65, \h69, \h6C, \h6E, \h6F, \h72, \h73,
          \h74, \h77, \h78, \h7A, \h81, \h82, \h8A, \h90, \h98, \h99, \hA2, \hA4, \hA9, \hB1, \hB2,
          \hB3, \hB6, \hBA, \hBC, \hBD, \hBE, \hBF, \hC0, \hC1, \hC3, \hC4, \hC5, \hC7, \hC8, \hC9,
          \hCA, \hCD, \hCE, \hCF, \hD0, \hD4, \hD6, \hD8, \hE0, \hE2, \hE3, \hE4, \hE5, \hE6, \hE7,
          \hE8, \hE9, \hEC, \hF0, \hF1, \hF2, \hF6, \hFE >>,
       << \h4E04, \h4E06, \h4E12, \h4E20, \h4E44, \h4E64, \h4E67, \h4E68, \h4E6A, \h4E6E, \h4E74,
          \h4E76, \h4E77, \h4E7A, \h4E7B, \h4E7C, \h4E80, \h4E81, \h4E83, \h4E96, \h4E97, \h4EB0,
          \h4EB9, \h4ED2, \h4EDA, \h4EEE, \h4EF1, \h4EFC, \h4F07, \h4F08, \h4F0B, \h4F13, \h4F1C,
          \h4F21, \h4F23, \h4F28, \h4F29, \h4F2C, \h4F2D, \h4F31, \h4F33, \h4F35, \h4F39, \h4F3B,
          \h4F3E, \h4F3F, \h4F42, \h4F44, \h4F45, \h4F47, \h4F4B, \h4F52, \h4F56, \h4F6E, \h4F72,
          \h4F75, \h4F77, \h4F78, \h4F79, \h4F7A, \h4F7D, \h4F80, \h4F85, \h4F8C, \h4F8E, \h4F90,
          \h4F96, \h4FA2 >> >>,
    << \h82,
       << \h41, \h43, \h45, \h48, \h57, \h61, \h63, \h64, \h65, \h69, \h6C, \h6E, \h6F, \h72, \h73,
          \h74, \h77, \h78, \h7A, \h81, \h82, \h8A, \h90, \h98, \h99, \hA2, \hA4, \hA9, \hB1, \hB2,
          \hB3, \hB6, \hBA, \hBC, \hBD, \hBE, \hBF, \hC0, \hC1, \hC3, \hC4, \hC5, \hC7, \hC8, \hC9,
          \hCA, \hCD, \hCE, \hCF, \hD0, \hD4, \hD6, \hD8, \hE0, \hE2, \hE3, \hE4, \hE5, \hE6, \hE7,
          \hE8, \hE9, \hEC, \hF0, \hF1, \hF2, \hF6, \hFE >>,
       << \h4FAB, \h4FB0, \h4FB2, \h4FB6, \h4FC9, \h4FDB, \h4FE2, \h4FE4, \h4FE5, \h4FF0, \h4FF5,
          \h4FF7, \h4FF9, \h4FFD, \h4FFF, \h5000, \h5003, \h5004, \h5006, \h500E, \h5010, \h501E,
          \h502B, \h5036, \h5037, \h5044, \h5046, \h5050, \h5059, \h505B, \h505D, \h5060, \h5064,
          \h5067, \h5068, \h5069, \h506A, \h506B, \h506D, \h506F, \h5070, \h5071, \h5073, \h5074,
          \h5075, \h5078, \h507C, \h507D, \h5081, \h5082, \h5087, \h508A, \h508C, \h5095, \h5097,
          \h5098, \h5099, \h509A, \h509B, \h509C, \h509D, \h509E, \h50A1, \h50AA, \h50AB, \h50AD,
          \h50B1, \h50BC >> >>,
    << \h8A,
       << \h41, \h43, \h45, \h48, \h57, \h61, \h63, \h64, \h65, \h69, \h6C, \h6E, \h6F, \h72, \h73,
          \h74, \h77, \h78, \h7A, \h81, \h82, \h8A, \h90, \h98, \h99, \hA2, \hA4, \hA9, \hB1, \hB2,
          \hB3, \hB6, \hBA, \hBC, \hBD, \hBE, \hBF, \hC0, \hC1, \hC3, \hC4, \hC5, \hC7, \hC8, \hC9,
          \hCA, \hCD, \hCE, \hCF, \hD0, \hD4, \hD6, \hD8, \hE0, \hE2, \hE3, \hE4, \hE5, \hE6, \hE7,
          \hE8, \hE9, \hEC, \hF0, \hF1, \hF2, \hF6, \hFE >>,
       << \h593E, \h5940, \h5945, \h594C, \h5967, \h5971, \h5975, \h5977, \h597A, \h597F, \h5989,
          \h598C, \h598E, \h5991, \h5994, \h5995, \h599B, \h599C, \h599F, \h59AC, \h59AD, \h59B8,
          \h59C1, \h59CC, \h59CD, \h59E0, \h59E2, \h59EA, \h59F3, \h59F4, \h59F5, \h59F8, \h59FE,
          \h5A02, \h5A0A, \h5A0B, \h5A0D, \h5A0E, \h5A0F, \h5A12, \h5A14, \h5A15, \h5A17, \h5A19,
          \h5A1A, \h5A1B, \h5A21, \h5A22, \h5A24, \h5A26, \h5A2B, \h5A2D, \h5A2F, \h5A3B, \h5A3E,
          \h5A3F, \h5A41, \h5A42, \h5A43, \h5A44, \h5A45, \h5A47, \h5A4C, \h5A50, \h5A51, \h5A52,
          \h5A57, \h5A60 >> >>,
    << \h90,
       << \h41, \h43, \h45, \h48, \h57, \h61, \h63, \h64, \h65, \h69, \h6C, \h6E, \h6F, \h72, \h73,
          \h74, \h77, \h78, \h7A, \h81, \h82, \h8A, \h90, \h98, \h99, \hA2, \hA4, \hA9, \hB1, \hB2,
          \hB3, \hB6, \hBA, \hBC, \hBD, \hBE, \hBF, \hC0, \hC1, \hC3, \hC4, \hC5, \hC7, \hC8, \hC9,
          \hCA, \hCD, \hCE, \hCF, \hD0, \hD4, \hD6, \hD8, \hE0, \hE2, \hE3, \hE4, \hE5, \hE6, \hE7,
          \hE8, \hE9, \hEC, \hF0, \hF1, \hF2, \hF6, \hFE >>,
       << \h6009, \h600C, \h6011, \h6018, \h6036, \h6046, \h6048, \h6049, \h604A, \h6051, \h6056,
          \h6058, \h605B, \h605F, \h6060, \h6061, \h606E, \h6071, \h6074, \h6082, \h6085, \h6090,
          \h6099, \h60A9, \h60AA, \h60BD, \h60BF, \h60C4, \h60D0, \h60D2, \h60D3, \h60D7, \h60E1,
          \h60E3, \h60E4, \h60E5, \h60EA, \h60F1, \h60F2, \h60F7, \h60F8, \h60FB, \h60FD, \h60FE,
          \h60FF, \h6102, \h6105, \h6107, \h610A, \h610B, \h6112, \h6114, \h6117, \h6122, \h6128,
          \h6129, \h612A, \h612C, \h612D, \h612E, \h612F, \h6130, \h6133, \h6137, \h6138, \h6139,
          \h613D, \h6146 >> >>,
    << \h98,
       << \h41, \h43, \h45, \h48, \h57, \h61, \h63, \h64, \h65, \h69, \h6C, \h6E, \h6F, \h72, \h73,
          \h74, \h77, \h78, \h7A, \h81, \h82, \h8A, \h90, \h98, \h99, \hA2, \hA4, \hA9, \hB1, \hB2,
          \hB3, \hB6, \hBA, \hBC, \hBD, \hBE, \hBF, \hC0, \hC1, \hC3, \hC4, \hC5, \hC7, \hC8, \hC9,
          \hCA, \hCD, \hCE, \hCF, \hD0, \hD4, \hD6, \hD8, \hE0, \hE2, \hE3, \hE4, \hE5, \hE6, \hE7,
          \hE8, \hE9, \hEC, \hF0, \hF1, \hF2, \hF6, \hFE >>,
       << \h6962, \h6965, \h6968, \h696C, \h6983, \h6993, \h6997, \h6999, \h699A, \h69A0, \h69A3,
          \h69A5, \h69A6, \h69AC, \h69AE, \h69AF, \h69B3, \h69B5, \h69B8, \h69BF, \h69C0, \h69C9,
          \h69D3, \h69DD, \h69DE, \h69E9, \h69EB, \h69F1, \h69FA, \h69FB, \h69FC, \h6A01, \h6A05,
          \h6A07, \h6A08, \h6A09, \h6A0B, \h6A0C, \h6A0D, \h6A0F, \h6A10, \h6A11, \h6A13, \h6A14,
          \h6A15, \h6A16, \h6A1B, \h6A1C, \h6A1D, \h6A1E, \h6A24, \h6A26, \h6A29, \h6A34, \h6A37,
          \h6A38, \h6A39, \h6A3A, \h6A3B, \h6A3C, \h6A3F, \h6A40, \h6A43, \h6A49, \h6A4A, \h6A4B,
          \h6A4F, \h6A5A >> >>,
    << \h99,
       << \h41, \h43, \h45, \h48, \h57, \h61, \h63, \h64, \h65, \h69, \h6C, \h6E, \h6F, \h72, \h73,
          \h74, \h77, \h78, \h7A, \h81, \h82, \h8A, \h90, \h98, \h99, \hA2, \hA4, \hA9, \hB1, \hB2,
          \hB3, \hB6, \hBA, \hBC, \hBD, \hBE, \hBF, \hC0, \hC1, \hC3, \hC4, \hC5, \hC7, \hC8, \hC9,
          \hCA, \hCD, \hCE, \hCF, \hD0, \hD4, \hD6, \hD8, \hE0, \hE2, \hE3, \hE4, \hE5, \hE6, \hE7,
          \hE8, \hE9, \hEC, \hF0, \hF1, \hF2, \hF6, \hFE >>,
       << \h6A5D, \h6A5F, \h6A62, \h6A66, \h6A76, \h6A83, \h6A86, \h6A87, \h6A88, \h6A8C, \h6A92,
          \h6A94, \h6A95, \h6A99, \h6A9A, \h6A9B, \h6A9E, \h6A9F, \h6AA2, \h6AA8, \h6AAA, \h6AB4,
          \h6ABA, \h6AC2, \h6AC3, \h6ACC, \h6ACE, \h6AD3, \h6ADB, \h6ADC, \h6ADD, \h6AE0, \h6AE4,
          \h6AE6, \h6AE7, \h6AE8, \h6AE9, \h6AEA, \h6AEB, \h6AED, \h6AEE, \h6AEF, \h6AF1, \h6AF2,
          \h6AF3, \h6AF4, \h6AF7, \h6AF8, \h6AF9, \h6AFA, \h6AFE, \h6B00, \h6B02, \h6B0A, \h6B0C,
          \h6B0D, \h6B0E, \h6B0F, \h6B10, \h6B11, \h6B12, \h6B13, \h6B16, \h6B1A, \h6B1B, \h6B1C,
          \h6B25, \h6B2E >> >>,
    << \hA2,
       << \hA2, \hA4, \hA9 >>,
       << \h2171, \h2173, \h2178 >> >>,
    << \hA9,
       << \h41, \h43, \h45, \h48, \h57, \h61, \h63, \h64, \h65, \h69, \h6C, \h6E, \h6F, \h72, \h73,
          \h74, \h77, \h78, \h7A, \h81, \h82 >>,
       << \h3022, \h3024, \h3026, \h3029, \hFFE4, \h309B, \h30FD, \h30FE, \h3006, \hFE4A, \hFE4D,
          \hFE4F, \hFE50, \hFE54, \hFE55, \hFE56, \hFE5A, \hFE5B, \hFE5D, \hFE63, \hFE64 >> >>,
    << \hB1,
       << \h41, \h43, \h45, \h48, \h57, \h61, \h63, \h64, \h65, \h69, \h6C, \h6E, \h6F, \h72, \h73,
          \h74, \h77, \h78, \h7A, \h81, \h82, \h8A, \h90, \h98, \h99 >>,
       << \h76C7, \h76CB, \h76D3, \h76DA, \h76EC, \h76FF, \h7702, \h7703, \h7705, \h770E, \h7711,
          \h7713, \h7714, \h7717, \h7718, \h771B, \h771E, \h7721, \h7724, \h772E, \h7730, \h773E,
          \h7748, \h7752, \h7753 >> >>,
    << \hB2,
       << \h41, \h43, \h45, \h48, \h57, \h61, \h63, \h64, \h65, \h69, \h6C, \h6E, \h6F, \h72, \h73,
          \h74, \h77, \h78, \h7A, \h81, \h82, \h8A, \h90, \h98, \h99 >>,
       << \h775E, \h7760, \h7767, \h776D, \h7781, \h7790, \h7794, \h7795, \h7796, \h779A, \h779D,
          \h77A1, \h77A3, \h77A8, \h77AB, \h77AD, \h77B1, \h77B2, \h77B6, \h77BE, \h77C0, \h77C8,
          \h77CF, \h77D8, \h77D9 >> >>,
    << \hB3,
       << \h41, \h43, \h45, \h48, \h57, \h61, \h63, \h64, \h65, \h69, \h6C, \h6E, \h6F, \h72, \h73,
          \h74, \h77, \h78, \h7A, \h81, \h82, \h8A, \h90, \h98, \h99 >>,
       << \h77E8, \h77EF, \h77F1, \h77F5, \h780F, \h7824, \h782A, \h782B, \h782E, \h7833, \h783D,
          \h7841, \h7842, \h7846, \h7848, \h7849, \h784D, \h784F, \h7853, \h785C, \h785E, \h7866,
          \h7871, \h787A, \h787B >> >>,
    << \hB6,
       << \h41, \h43, \h45, \h48, \h57, \h61, \h63, \h64, \h65, \h69, \h6C, \h6E, \h6F, \h72, \h73,
          \h74, \h77, \h78, \h7A, \h81, \h82, \h8A, \h90, \h98, \h99 >>,
       << \h7994, \h7996, \h7998, \h799C, \h79AC, \h79B7, \h79BC, \h79BF, \h79C2, \h79C8, \h79CE,
          \h79D0, \h79D3, \h79D7, \h79D9, \h79DA, \h79DD, \h79DE, \h79E1, \h79EE, \h79F1, \h79FA,
          \h7A05, \h7A11, \h7A12 >> >>,
    << \hBA,
       << \h41, \h43, \h45, \h48, \h57, \h61, \h63, \h64, \h65, \h69, \h6C, \h6E, \h6F, \h72, \h73,
          \h74, \h77, \h78, \h7A, \h81, \h82, \h8A, \h90, \h98, \h99 >>,
       << \h7BC8, \h7BCA, \h7BCD, \h7BD0, \h7BE7, \h7BF4, \h7BF6, \h7BF8, \h7BF9, \h7BFF, \h7C02,
          \h7C04, \h7C05, \h7C09, \h7C0A, \h7C0D, \h7C11, \h7C12, \h7C14, \h7C1B, \h7C1C, \h7C25,
          \h7C2E, \h7C36, \h7C37 >> >>,
    << \hBC,
       << \h41, \h43, \h45, \h48, \h57, \h61, \h63, \h64, \h65, \h69, \h6C, \h6E, \h6F, \h72, \h73,
          \h74, \h77, \h78, \h7A, \h81, \h82, \h8A, \h90, \h98, \h99 >>,
       << \h7CC0, \h7CC3, \h7CC6, \h7CCE, \h7CE4, \h7CF0, \h7CF2, \h7CF3, \h7CF4, \h7CF9, \h7CFD,
          \h7CFF, \h7D00, \h7D03, \h7D04, \h7D05, \h7D08, \h7D09, \h7D0C, \h7D12, \h7D13, \h7D1B,
          \h7D23, \h7D2D, \h7D2E >> >>,
    << \hBD,
       << \h41, \h43, \h45, \h48, \h57, \h61, \h63, \h64, \h65, \h69, \h6C, \h6E, \h6F, \h72, \h73,
          \h74, \h77, \h78, \h7A, \h81, \h82, \h8A, \h90, \h98, \h99 >>,
       << \h7D38, \h7D3A, \h7D3C, \h7D3F, \h7D4E, \h7D58, \h7D5A, \h7D5B, \h7D5C, \h7D60, \h7D63,
          \h7D65, \h7D66, \h7D69, \h7D6A, \h7D6B, \h7D6F, \h7D70, \h7D72, \h7D79, \h7D7A, \h7D82,
          \h7D88, \h7D90, \h7D91 >> >>,
    << \hBE,
       << \h41, \h43, \h45, \h48, \h57, \h61, \h63, \h64, \h65, \h69, \h6C, \h6E, \h6F, \h72, \h73,
          \h74, \h77, \h78, \h7A, \h81, \h82, \h8A, \h90, \h98, \h99 >>,
       << \h7D9A, \h7D9C, \h7D9E, \h7DA1, \h7DB2, \h7DBC, \h7DBE, \h7DBF, \h7DC0, \h7DC4, \h7DC7,
          \h7DC9, \h7DCA, \h7DCD, \h7DCE, \h7DCF, \h7DD2, \h7DD3, \h7DD5, \h7DDB, \h7DDC, \h7DE4,
          \h7DEA, \h7DF2, \h7DF3 >> >>,
    << \hBF,
       << \h41, \h43, \h45, \h48, \h57, \h61, \h63, \h64, \h65, \h69, \h6C, \h6E, \h6F, \h72, \h73,
          \h74, \h77, \h78, \h7A, \h81, \h82, \h8A, \h90, \h98, \h99 >>,
       << \h7DFC, \h7DFE, \h7E00, \h7E03, \h7E12, \h7E1C, \h7E1E, \h7E1F, \h7E20, \h7E24, \h7E27,
          \h7E29, \h7E2A, \h7E2D, \h7E2E, \h7E2F, \h7E32, \h7E33, \h7E35, \h7E3C, \h7E3D, \h7E46,
          \h7E4D, \h7E55, \h7E56 >> >>,
    << \hC0,
       << \h41, \h43, \h45, \h48, \h57, \h61, \h63, \h64, \h65, \h69, \h6C, \h6E, \h6F, \h72, \h73,
          \h74, \h77, \h78, \h7A, \h81, \h82, \h8A, \h90, \h98, \h99 >>,
       << \h7E5F, \h7E61, \h7E63, \h7E66, \h7E75, \h7E7F, \h7E81, \h7E83, \h7E84, \h7E88, \h7E8B,
          \h7E8D, \h7E8E, \h7E91, \h7E92, \h7E93, \h7E96, \h7E97, \h7E99, \h7EB4, \h7EBB, \h7F1E,
          \h7F3E, \h7F49, \h7F4A >> >>,
    << \hC1,
       << \h41, \h43, \h45, \h48, \h57, \h61, \h63, \h64, \h65, \h69, \h6C, \h6E, \h6F, \h72, \h73,
          \h74, \h77, \h78, \h7A, \h81, \h82, \h8A, \h90, \h98, \h99 >>,
       << \h7F59, \h7F5C, \h7F5E, \h7F64, \h7F7B, \h7F87, \h7F89, \h7F8B, \h7F8D, \h7F92, \h7F96,
          \h7F98, \h7F99, \h7FA0, \h7FA2, \h7FA3, \h7FA8, \h7FA9, \h7FAB, \h7FB4, \h7FB5, \h7FC3,
          \h7FCB, \h7FD7, \h7FD9 >> >>,
    << \hC3,
       << \h41, \h43, \h45, \h48, \h57, \h61, \h63, \h64, \h65, \h69, \h6C, \h6E, \h6F, \h72, \h73,
          \h74, \h77, \h78, \h7A, \h81, \h82, \h8A, \h90, \h98, \h99 >>,
       << \h8081, \h8085, \h808A, \h808F, \h80B3, \h80CA, \h80CF, \h80D0, \h80D1, \h80D5, \h80E0,
          \h80E3, \h80E6, \h80F7, \h80F9, \h80FB, \h8100, \h8101, \h8104, \h8115, \h8117, \h8122,
          \h8128, \h8134, \h8135 >> >>,
    << \hC4,
       << \h41, \h43, \h45, \h48, \h57, \h61, \h63, \h64, \h65, \h69, \h6C, \h6E, \h6F, \h72, \h73,
          \h74, \h77, \h78, \h7A, \h81, \h82, \h8A, \h90, \h98, \h99 >>,
       << \h8141, \h8143, \h8145, \h814D, \h8164, \h8176, \h8178, \h8181, \h8183, \h8187, \h818C,
          \h818E, \h8190, \h8194, \h8195, \h8196, \h819A, \h819E, \h81A0, \h81A9, \h81AB, \h81B4,
          \h81BC, \h81C9, \h81CB >> >>,
    << \hC5,
       << \h41, \h43, \h45, \h48, \h57, \h61, \h63, \h64, \h65, \h69, \h6C, \h6E, \h6F, \h72, \h73,
          \h74, \h77, \h78, \h7A, \h81, \h82, \h8A, \h90, \h98, \h99 >>,
       << \h81D5, \h81D7, \h81D9, \h81DC, \h81F0, \h81FF, \h8207, \h8208, \h8209, \h820F, \h8215,
          \h8217, \h8218, \h821D, \h8220, \h8224, \h8227, \h8229, \h8232, \h8241, \h8242, \h824E,
          \h8255, \h8260, \h8261 >> >>,
    << \hC7,
       << \h41, \h43, \h45, \h48, \h57, \h61, \h63, \h64, \h65, \h69, \h6C, \h6E, \h6F, \h72, \h73,
          \h74, \h77, \h78, \h7A, \h81, \h82, \h8A, \h90, \h98, \h99 >>,
       << \h833F, \h8342, \h8345, \h834B, \h8373, \h8382, \h8384, \h8387, \h8388, \h838D, \h8391,
          \h8395, \h8396, \h839A, \h839D, \h839F, \h83A3, \h83A4, \h83A6, \h83B5, \h83BB, \h83C9,
          \h83D2, \h83E2, \h83E3 >> >>,
    << \hC8,
       << \h41, \h43, \h45, \h48, \h57, \h61, \h63, \h64, \h65, \h69, \h6C, \h6E, \h6F, \h72, \h73,
          \h74, \h77, \h78, \h7A, \h81, \h82, \h8A, \h90, \h98, \h99 >>,
       << \h83EF, \h83F4, \h83F6, \h83FB, \h8415, \h8422, \h8429, \h842A, \h842B, \h842F, \h8433,
          \h8435, \h8436, \h843A, \h843B, \h843E, \h8441, \h8442, \h8444, \h844B, \h844C, \h8455,
          \h8460, \h846E, \h846F >> >>,
    << \hC9,
       << \h41, \h43, \h45, \h48, \h57, \h61, \h63, \h64, \h65, \h69, \h6C, \h6E, \h6F, \h72, \h73,
          \h74, \h77, \h78, \h7A, \h81, \h82, \h8A, \h90, \h98, \h99 >>,
       << \h847E, \h8480, \h8483, \h8486, \h849E, \h84A9, \h84AB, \h84AC, \h84AD, \h84B3, \h84B7,
          \h84BC, \h84BE, \h84C3, \h84C5, \h84C6, \h84CB, \h84CC, \h84CF, \h84D9, \h84DA, \h84E8,
          \h84EF, \h84F8, \h84F9 >> >>,
    << \hCA,
       << \h41, \h43, \h45, \h48, \h57, \h61, \h63, \h64, \h65, \h69, \h6C, \h6E, \h6F, \h72, \h73,
          \h74, \h77, \h78, \h7A, \h81, \h82, \h8A, \h90, \h98, \h99 >>,
       << \h8504, \h8506, \h8508, \h850B, \h8520, \h852D, \h852F, \h8530, \h8531, \h8535, \h853F,
          \h8541, \h8542, \h8546, \h8547, \h854B, \h854E, \h854F, \h8551, \h8558, \h855A, \h8563,
          \h856B, \h8575, \h8576 >> >>,
    << \hCD,
       << \h41, \h43, \h45, \h48, \h57, \h61, \h63, \h64, \h65, \h69, \h6C, \h6E, \h6F, \h72, \h73,
          \h74, \h77, \h78, \h7A, \h81, \h82, \h8A, \h90, \h98, \h99 >>,
       << \h866F, \h8672, \h8674, \h8677, \h8696, \h86A2, \h86A6, \h86AB, \h86AD, \h86B7, \h86BB,
          \h86BD, \h86BE, \h86C2, \h86C3, \h86C5, \h86CD, \h86D2, \h86D5, \h86E0, \h86E1, \h86EB,
          \h86FA, \h8706, \h870B >> >>,
    << \hCE,
       << \h41, \h43, \h45, \h48, \h57, \h61, \h63, \h64, \h65, \h69, \h6C, \h6E, \h6F, \h72, \h73,
          \h74, \h77, \h78, \h7A, \h81, \h82, \h8A, \h90, \h98, \h99 >>,
       << \h871B, \h871F, \h8724, \h8728, \h873D, \h874D, \h8750, \h8751, \h8752, \h8758, \h875C,
          \h875E, \h875F, \h8766, \h8767, \h8768, \h876B, \h876C, \h876F, \h8778, \h8779, \h8789,
          \h8791, \h879B, \h879C >> >>,
    << \hCF,
       << \h41, \h43, \h45, \h48, \h57, \h61, \h63, \h64, \h65, \h69, \h6C, \h6E, \h6F, \h72, \h73,
          \h74, \h77, \h78, \h7A, \h81, \h82, \h8A, \h90, \h98, \h99 >>,
       << \h87A6, \h87A9, \h87AE, \h87B2, \h87C7, \h87D6, \h87D8, \h87D9, \h87DA, \h87DF, \h87E3,
          \h87E6, \h87E7, \h87EB, \h87EC, \h87ED, \h87F1, \h87F2, \h87F4, \h87FB, \h87FC, \h8806,
          \h880D, \h8818, \h8819 >> >>,
    << \hD0,
       << \h41, \h43, \h45, \h48, \h57, \h61, \h63, \h64, \h65, \h69, \h6C, \h6E, \h6F, \h72, \h73,
          \h74, \h77, \h78, \h7A, \h81, \h82, \h8A, \h90, \h98, \h99 >>,
       << \h8825, \h8827, \h8829, \h882C, \h883E, \h884B, \h884F, \h8850, \h8851, \h8856, \h885B,
          \h885D, \h885E, \h8866, \h8867, \h886A, \h8871, \h8873, \h8875, \h887C, \h8880, \h888F,
          \h8897, \h88A0, \h88A1 >> >>,
    << \hD4,
       << \h41, \h43, \h45, \h48, \h57, \h61, \h63, \h64, \h65, \h69, \h6C, \h6E, \h6F, \h72, \h73,
          \h74, \h77, \h78, \h7A, \h81, \h82, \h8A, \h90, \h98, \h99 >>,
       << \h8A1F, \h8A21, \h8A23, \h8A26, \h8A35, \h8A40, \h8A42, \h8A43, \h8A44, \h8A49, \h8A4C,
          \h8A4E, \h8A4F, \h8A52, \h8A53, \h8A54, \h8A57, \h8A58, \h8A5A, \h8A60, \h8A61, \h8A69,
          \h8A6F, \h8A77, \h8A78 >> >>,
    << \hD6,
       << \h41, \h43, \h45, \h48, \h57, \h61, \h63, \h64, \h65, \h69, \h6C, \h6E, \h6F, \h72, \h73,
          \h74, \h77, \h78, \h7A, \h81, \h82, \h8A, \h90, \h98, \h99 >>,
       << \h8AE5, \h8AE7, \h8AE9, \h8AEC, \h8AFB, \h8B05, \h8B08, \h8B09, \h8B0A, \h8B0E, \h8B11,
          \h8B13, \h8B14, \h8B17, \h8B18, \h8B19, \h8B1C, \h8B1D, \h8B1F, \h8B25, \h8B27, \h8B2F,
          \h8B35, \h8B3D, \h8B3E >> >>,
    << \hD8,
       << \h41, \h43, \h45, \h48, \h57, \h61, \h63, \h64, \h65, \h69, \h6C, \h6E, \h6F, \h72, \h73,
          \h74, \h77, \h78, \h7A, \h81, \h82, \h8A, \h90, \h98, \h99 >>,
       << \h8C39, \h8C3B, \h8C3D, \h8C40, \h8C54, \h8C60, \h8C64, \h8C65, \h8C66, \h8C6C, \h8C6F,
          \h8C71, \h8C72, \h8C76, \h8C77, \h8C7B, \h8C7E, \h8C7F, \h8C81, \h8C8B, \h8C8D, \h8C96,
          \h8C9D, \h8CA5, \h8CA6 >> >>,
    << \hE0,
       << \h41, \h43, \h45, \h48, \h57, \h61, \h63, \h64, \h65, \h69, \h6C, \h6E, \h6F, \h72, \h73,
          \h74, \h77, \h78, \h7A, \h81, \h82, \h8A, \h90, \h98, \h99 >>,
       << \h90C3, \h90C8, \h90CB, \h90D2, \h90EC, \h90FA, \h90FC, \h90FF, \h9100, \h9106, \h9109,
          \h910B, \h910C, \h910F, \h9110, \h9111, \h9114, \h9115, \h9117, \h911F, \h9120, \h912A,
          \h9132, \h913B, \h913C >> >>,
    << \hE2,
       << \h41, \h43, \h45, \h48, \h57, \h61, \h63, \h64, \h65, \h69, \h6C, \h6E, \h6F, \h72, \h73,
          \h74, \h77, \h78, \h7A, \h81, \h82, \h8A, \h90, \h98, \h99 >>,
       << \h91E7, \h91E9, \h91EB, \h91EE, \h91FD, \h9207, \h9209, \h920A, \h920B, \h920F, \h9212,
          \h9214, \h9215, \h9218, \h9219, \h921A, \h921D, \h921E, \h9220, \h9226, \h9227, \h922F,
          \h9235, \h923D, \h923E >> >>,
    << \hE3,
       << \h41, \h43, \h45, \h48, \h57, \h61, \h63, \h64, \h65, \h69, \h6C, \h6E, \h6F, \h72, \h73,
          \h74, \h77, \h78, \h7A, \h81, \h82, \h8A, \h90, \h98, \h99 >>,
       << \h9247, \h9249, \h924B, \h924E, \h925D, \h9267, \h9269, \h926A, \h926B, \h926F, \h9272,
          \h9275, \h9276, \h9279, \h927A, \h927B, \h927E, \h927F, \h9281, \h9287, \h9288, \h9291,
          \h9297, \h929F, \h92A0 >> >>,
    << \hE4,
       << \h41, \h43, \h45, \h48, \h57, \h61, \h63, \h64, \h65, \h69, \h6C, \h6E, \h6F, \h72, \h73,
          \h74, \h77, \h78, \h7A, \h81, \h82, \h8A, \h90, \h98, \h99 >>,
       << \h92A9, \h92AB, \h92AD, \h92B1, \h92C0, \h92CB, \h92CD, \h92CE, \h92CF, \h92D3, \h92D6,
          \h92D8, \h92D9, \h92DC, \h92DD, \h92DE, \h92E1, \h92E2, \h92E4, \h92EA, \h92EB, \h92F3,
          \h92F9, \h9301, \h9302 >> >>,
    << \hE5,
       << \h41, \h43, \h45, \h48, \h57, \h61, \h63, \h64, \h65, \h69, \h6C, \h6E, \h6F, \h72, \h73,
          \h74, \h77, \h78, \h7A, \h81, \h82, \h8A, \h90, \h98, \h99 >>,
       << \h930B, \h930D, \h930F, \h9312, \h9321, \h932B, \h932D, \h932E, \h932F, \h9333, \h9336,
          \h9338, \h9339, \h933C, \h933D, \h933F, \h9342, \h9343, \h9345, \h934B, \h934C, \h9354,
          \h935A, \h9362, \h9363 >> >>,
    << \hE6,
       << \h41, \h43, \h45, \h48, \h57, \h61, \h63, \h64, \h65, \h69, \h6C, \h6E, \h6F, \h72, \h73,
          \h74, \h77, \h78, \h7A, \h81, \h82, \h8A, \h90, \h98, \h99 >>,
       << \h936D, \h936F, \h9371, \h9374, \h9383, \h938D, \h9390, \h9391, \h9392, \h9396, \h9399,
          \h939B, \h939C, \h939F, \h93A0, \h93A1, \h93A4, \h93A5, \h93A7, \h93AD, \h93AE, \h93B6,
          \h93BC, \h93C4, \h93C5 >> >>,
    << \hE7,
       << \h41, \h43, \h45, \h48, \h57, \h61, \h63, \h64, \h65, \h69, \h6C, \h6E, \h6F, \h72, \h73,
          \h74, \h77, \h78, \h7A, \h81, \h82, \h8A, \h90, \h98, \h99 >>,
       << \h93CF, \h93D1, \h93D3, \h93D7, \h93E6, \h93F0, \h93F2, \h93F3, \h93F4, \h93F8, \h93FB,
          \h93FD, \h93FE, \h9401, \h9402, \h9403, \h9406, \h9407, \h9409, \h940F, \h9410, \h9418,
          \h941E, \h9426, \h9427 >> >>,
    << \hE8,
       << \h41, \h43, \h45, \h48, \h57, \h61, \h63, \h64, \h65, \h69, \h6C, \h6E, \h6F, \h72, \h73,
          \h74, \h77, \h78, \h7A, \h81, \h82, \h8A, \h90, \h98, \h99 >>,
       << \h9430, \h9432, \h9434, \h9437, \h9447, \h9451, \h9453, \h9454, \h9455, \h9459, \h945C,
          \h945E, \h945F, \h9462, \h9463, \h9464, \h9467, \h9468, \h946A, \h9471, \h9472, \h947A,
          \h9480, \h94C7, \h94CF >> >>,
    << \hE9,
       << \h41, \h43, \h45, \h48, \h57, \h61, \h63, \h64, \h65, \h69, \h6C, \h6E, \h6F, \h72, \h73,
          \h74, \h77, \h78, \h7A, \h81, \h82, \h8A, \h90, \h98, \h99 >>,
       << \h9533, \h9543, \h954B, \h9560, \h9583, \h958D, \h958F, \h9590, \h9591, \h9595, \h9598,
          \h959A, \h959B, \h959E, \h959F, \h95A0, \h95A3, \h95A4, \h95A6, \h95AC, \h95AD, \h95B5,
          \h95BB, \h95C3, \h95C4 >> >>,
    << \hEC,
       << \h41, \h43, \h45, \h48, \h57, \h61, \h63, \h64, \h65, \h69, \h6C, \h6E, \h6F, \h72, \h73,
          \h74, \h77, \h78, \h7A, \h81, \h82, \h8A, \h90, \h98, \h99 >>,
       << \h9722, \h9724, \h9726, \h9729, \h973F, \h9749, \h974B, \h974C, \h974D, \h9751, \h9757,
          \h975A, \h975C, \h9763, \h9764, \h9766, \h976A, \h976B, \h976D, \h9775, \h9777, \h9780,
          \h9787, \h9793, \h9795 >> >>,
    << \hF0,
       << \h41, \h43, \h45, \h48, \h57, \h61, \h63, \h64, \h65, \h69, \h6C, \h6E, \h6F, \h72, \h73,
          \h74, \h77, \h78, \h7A, \h81, \h82, \h8A, \h90, \h98, \h99 >>,
       << \h9909, \h990B, \h990E, \h9912, \h9921, \h992B, \h992D, \h992F, \h9930, \h9934, \h9937,
          \h9939, \h993A, \h993D, \h993E, \h993F, \h9942, \h9943, \h9945, \h994B, \h994C, \h9956,
          \h995C, \h9966, \h9973 >> >>,
    << \hF1,
       << \h41, \h43, \h45, \h48, \h57, \h61, \h63, \h64, \h65, \h69, \h6C, \h6E, \h6F, \h72, \h73,
          \h74, \h77, \h78, \h7A, \h81, \h82, \h8A, \h90, \h98, \h99 >>,
       << \h998E, \h999B, \h999D, \h99A0, \h99B1, \h99BB, \h99BD, \h99BE, \h99BF, \h99C3, \h99C6,
          \h99C8, \h99C9, \h99CC, \h99CD, \h99CE, \h99D1, \h99D2, \h99D4, \h99DA, \h99DB, \h99E3,
          \h99E9, \h99F1, \h99F2 >> >>,
    << \hF2,
       << \h41, \h43, \h45, \h48, \h57, \h61, \h63, \h64, \h65, \h69, \h6C, \h6E, \h6F, \h72, \h73,
          \h74, \h77, \h78, \h7A, \h81, \h82, \h8A, \h90, \h98, \h99 >>,
       << \h99FB, \h99FD, \h99FF, \h9A02, \h9A11, \h9A1B, \h9A1D, \h9A1E, \h9A1F, \h9A23, \h9A26,
          \h9A28, \h9A29, \h9A2C, \h9A2D, \h9A2E, \h9A31, \h9A32, \h9A34, \h9A3A, \h9A3B, \h9A43,
          \h9A49, \h9A51, \h9A52 >> >>,
    << \hF6,
       << \h41, \h43, \h45, \h48, \h57, \h61, \h63, \h64, \h65, \h69, \h6C, \h6E, \h6F, \h72, \h73,
          \h74, \h77, \h78, \h7A, \h81, \h82, \h8A, \h90, \h98, \h99 >>,
       << \h9BDD, \h9BDF, \h9BE1, \h9BE4, \h9BF3, \h9BFD, \h9BFF, \h9C00, \h9C01, \h9C05, \h9C08,
          \h9C0A, \h9C0B, \h9C0E, \h9C0F, \h9C10, \h9C13, \h9C14, \h9C16, \h9C1C, \h9C1D, \h9C25,
          \h9C2B, \h9C33, \h9C34 >> >>,
    << \hFE,
       << \h41, \h43, \h45, \h48 >>,
       << \hFA0D, \hFA0F, \hFA13, \hFA1F >> >>
  >>)

\* euc-kr make-up sequence: choseong index of the bytes \hA1..\hBE (-1: none)
cgk2u_choseong ==
  << 0, 1, -1, 2, -1, -1, 3, 4, 5, -1, -1, -1, -1, -1, -1, -1, 6, 7, 8, -1, 9, 10, 11, 12, 13, 14,
     15, 16, 17, 18 >>

\* euc-kr make-up sequence: jongseong index of the bytes \hA1..\hBE (-1: none)
cgk2u_jongseong ==
  << 1, 2, 3, 4, 5, 6, 7, -1, 8, 9, 10, 11, 12, 13, 14, 15, 16, 17, -1, 18, 19, 20, 21, 22, -1, 23,
     24, 25, 26, 27 >>

\* a successful decode: the decoded string
Ok(s) == [ok |-> TRUE, str |-> s]
\* UnicodeDecodeError
DecodeError == [ok |-> FALSE, str |-> <<>>]

\* one decoding step: n bytes consumed (0: invalid or truncated sequence), code point cp
Unit(n, cp) == [n |-> n, cp |-> cp]
Invalid == Unit(0, 0)

\* b[j] exists and is a UTF-8 continuation byte within lo..hi
Cont(b, j, lo, hi) == j <= Len(b) /\ b[j] >= lo /\ b[j] <= hi

\* UTF-8: shortest form only, no surrogates, nothing above U+10FFFF
utf_8_unit(b, i) ==
  LET c == b[i]
      lo2 == IF c = \hE0 THEN \hA0 ELSE IF c = \hF0 THEN \h90 ELSE \h80
      hi2 == IF c = \hED THEN \h9F ELSE IF c = \hF4 THEN \h8F ELSE \hBF
  IN  IF c < \h80 THEN Unit(1, c)
      ELSE IF c >= \hC2 /\ c <= \hDF
        THEN IF Cont(b, i + 1, \h80, \hBF)
               THEN Unit(2, (c - \hC0) * 64 + (b[i + 1] - \h80))
               ELSE Invalid
      ELSE IF c >= \hE0 /\ c <= \hEF
        THEN IF Cont(b, i + 1, lo2, hi2) /\ Cont(b, i + 2, \h80, \hBF)
               THEN Unit(3, (c - \hE0) * 4096 + (b[i + 1] - \h80) * 64 + (b[i + 2] - \h80))
               ELSE Invalid
      ELSE IF c >= \hF0 /\ c <= \hF4
        THEN IF Cont(b, i + 1, lo2, hi2) /\ Cont(b, i + 2, \h80, \hBF)
                /\ Cont(b, i + 3, \h80, \hBF)
               THEN Unit(4, (c - \hF0) * 262144 + (b[i + 1] - \h80) * 4096
                            + (b[i + 2] - \h80) * 64 + (b[i + 3] - \h80))
               ELSE Invalid
      ELSE Invalid

\* a single-byte code page: ASCII below \h80, the table above (0: undefined byte)
charmap_unit(high, b, i) ==
  LET c == b[i]
  IN  IF c < \h80 THEN Unit(1, c)
      ELSE IF high[c - \h7F] = 0 THEN Invalid
      ELSE Unit(1, high[c - \h7F])

\* latin-1: every byte is its own code point
latin_1_unit(b, i) == Unit(1, b[i])

\* a two-byte lookup: the pair (b[i], b[i+1]) in a lead :> (trail :> code point) table
HasPair(pairs, b, i) ==
  i < Len(b) /\ b[i] \in DOMAIN pairs /\ b[i + 1] \in DOMAIN pairs[b[i]]

\* a double-byte codec: ASCII as itself, otherwise a byte pair of the table
dbcs_unit(pairs, b, i) ==
  IF b[i] < \h80 THEN Unit(1, b[i])
  ELSE IF HasPair(pairs, b, i) THEN Unit(2, pairs[b[i]][b[i + 1]])
  ELSE Invalid

\* shift_jis: ASCII, the half-width katakana bytes \hA1..\hDF, otherwise a JIS X 0208 pair
shift_jis_unit(b, i) ==
  IF b[i] >= \hA1 /\ b[i] <= \hDF THEN Unit(1, \hFEC0 + b[i])
  ELSE dbcs_unit(shift_jis_pairs, b, i)

\* gbk: the gb2312 table first, then the gbk extension
gbk_unit(b, i) ==
  IF b[i] >= \h80 /\ ~HasPair(gb2312_pairs, b, i)
    THEN dbcs_unit(gbkext_pairs, b, i)
    ELSE dbcs_unit(gb2312_pairs, b, i)

\* euc-kr jamo index of a make-up sequence byte (-1: none)
Jamo(tbl, c) == IF c >= \hA1 /\ c <= \hBE THEN tbl[c - \hA0] ELSE -1

\* euc-kr: the eight-byte KS X 1001 make-up sequence \hA4\hD4 \hA4 cho \hA4 jung \hA4 jong,
\* otherwise a KS X 1001 pair
euc_kr_unit(b, i) ==
  IF b[i] = \hA4 /\ i < Len(b) /\ b[i + 1] = \hD4
    THEN IF i + 7 > Len(b) THEN Invalid
         ELSE LET cho == Jamo(cgk2u_choseong, b[i + 3])
                  jung == IF b[i + 5] >= \hBF /\ b[i + 5] <= \hD3
                            THEN b[i + 5] - \hBF ELSE -1
                  jong == IF b[i + 7] = \hD4 THEN 0 ELSE Jamo(cgk2u_jongseong, b[i + 7])
              IN  IF b[i + 2] # \hA4 \/ b[i + 4] # \hA4 \/ b[i + 6] # \hA4 THEN Invalid
                  ELSE IF cho = -1 \/ jung = -1 \/ jong = -1 THEN Invalid
                  ELSE Unit(8, \hAC00 + cho * 588 + jung * 28 + jong)
    ELSE dbcs_unit(euc_kr_pairs, b, i)

\* the decoding step of each codec
codec_unit(encoding, b, i) ==
  CASE encoding = "utf-8" -> utf_8_unit(b, i)
    [] encoding = "shift_jis" -> shift_jis_unit(b, i)
    [] encoding = "euc-kr" -> euc_kr_unit(b, i)
    [] encoding = "big5" -> dbcs_unit(big5_pairs, b, i)
    [] encoding = "gbk" -> gbk_unit(b, i)
    [] encoding = "gb2312" -> dbcs_unit(gb2312_pairs, b, i)
    [] encoding = "cp1251" -> charmap_unit(cp1251_high, b, i)
    [] encoding = "iso-8859-2" -> charmap_unit(iso8859_2_high, b, i)
    [] encoding = "cp1252" -> charmap_unit(cp1252_high, b, i)
    [] encoding = "latin-1" -> latin_1_unit(b, i)

\* the decoding loop from byte i on: the code points decoded, ending in -1 where a byte
\* sequence is invalid or truncated
decode_loop(b, encoding) ==
  LET decode_from[i \in 1..(Len(b) + 1)] ==
        IF i > Len(b) THEN <<>>
        ELSE LET u == codec_unit(encoding, b, i)
             IN  IF u.n = 0 THEN << -1 >> ELSE << u.cp >> \o decode_from[i + u.n]
  IN  decode_from[1]

\* content_bytes.decode(encoding) for an encoding the runtime knows
bytes_decode(b, encoding) ==
  LET s == decode_loop(b, encoding)
  IN  IF s # <<>> /\ s[Len(s)] = -1 THEN DecodeError ELSE Ok(s)

(***************************************************************************)
(* str.encode(encoding) of the tests' plaintexts.                          *)
(***************************************************************************)
\* str.encode("utf-8") of one code point (no surrogates)
utf_8_encode_unit(cp) ==
  IF cp < \h80 THEN << cp >>
  ELSE IF cp < \h800 THEN << \hC0 + (cp \div 64), \h80 + (cp % 64) >>
  ELSE IF cp < \h10000
    THEN << \hE0 + (cp \div 4096), \h80 + ((cp \div 64) % 64), \h80 + (cp % 64) >>
  ELSE << \hF0 + (cp \div 262144), \h80 + ((cp \div 4096) % 64),
          \h80 + ((cp \div 64) % 64), \h80 + (cp % 64) >>

\* the byte sequences one character can encode to: one or two bytes
EncodeUnits ==
  { << a >> : a \in ByteAlphabet } \cup { << a, c >> : a, c \in ByteAlphabet }

\* the make-up sequence byte \hA1..\hBE of jamo index k
JamoByte(tbl, k) == CHOOSE c \in \hA1..\hBE : tbl[c - \hA0] = k

\* euc-kr: the eight-byte make-up sequence of a hangul syllable
euc_kr_make_up(cp) ==
  LET c == cp - \hAC00
      jong == c % 28
  IN  << \hA4, \hD4, \hA4, JamoByte(cgk2u_choseong, c \div 588),
         \hA4, \hBF + ((c \div 28) % 21),
         \hA4, IF jong = 0 THEN \hD4 ELSE JamoByte(cgk2u_jongseong, jong) >>

\* A table codec's encoder, for a character whose encoding is a byte sequence over
\* ByteAlphabet: the one or two bytes that decode to cp.  Two exceptions: big5 decodes both
\* \hA2\hCE and \hA4\hCA to U+5345 and encodes it as \hA4\hCA; euc-kr encodes a hangul
\* syllable that has no byte pair as its make-up sequence.
table_encode_unit(cp, encoding) ==
  IF encoding = "big5" /\ cp = \h5345 THEN << \hA4, \hCA >>
  ELSE IF /\ encoding = "euc-kr" /\ cp >= \hAC00 /\ cp <= \hD7A3
          /\ \A u \in EncodeUnits : bytes_decode(u, encoding) # Ok(<< cp >>)
    THEN euc_kr_make_up(cp)
  ELSE CHOOSE u \in EncodeUnits : bytes_decode(u, encoding) = Ok(<< cp >>)

\* the codec a name (or its alias) stands for
codec_name(encoding) == IF encoding = "iso-8859-1" THEN "latin-1" ELSE encoding

encode_unit(cp, encoding) ==
  IF codec_name(encoding) = "utf-8" THEN utf_8_encode_unit(cp)
  ELSE IF codec_name(encoding) = "latin-1" THEN << cp >>
  ELSE table_encode_unit(cp, codec_name(encoding))

RECURSIVE str_encode(_, _)
\* text.encode(encoding), for a text whose characters the encoding represents
str_encode(s, encoding) ==
  IF s = <<>> THEN <<>>
  ELSE encode_unit(Head(s), encoding) \o str_encode(Tail(s), encoding)

(***************************************************************************)
(* The heuristics.  Python compares float quotients with 0.3, 0.5 and      *)
(* len * 0.1; for every count c <= n below 2^50 the correctly rounded      *)
(* c / n lies on the same side of the literal as the rational c/n, and     *)
(* n * 0.1 rounds to n/10 whenever that is an integer, so the comparisons  *)
(* are modelled in integers.                                               *)
(***************************************************************************)
\* sum(1 for c in s if P(c))
Count(s, P(_)) == Cardinality({ i \in 1..Len(s) : P(s[i]) })

\* variant: the NUL code point not counted as a control character
is_control_char_not_nul(c) == 0 < c /\ c < 32 /\ c \notin { 9, 10, 13 }

\* ord(c) < 32 and c not in "\t\n\r"
is_control_char(c) == c < 32 /\ c \notin { 9, 10, 13 }

\* variant: the ratio compared with < 0.3 instead of <= 0.3
is_likely_text_strict(decoded_str) ==
  IF Len(decoded_str) = 0 THEN TRUE
  ELSE 10 * Count(decoded_str, is_control_char) < 3 * Len(decoded_str)

is_likely_text(decoded_str) ==
  IF Len(decoded_str) = 0 THEN TRUE
  ELSE LET control_chars == Count(decoded_str, is_control_char)
       IN  10 * control_chars <= 3 * Len(decoded_str)

\* 0x0080 <= ord(c) <= 0x024F
is_high_latin(c) == \h80 <= c /\ c <= \h024F

is_space(c) == c = \h20

\* variant: the two conditions joined by "or" instead of "and"
is_likely_misencoded_asian_text_or(decoded_str, encoding) ==
  IF encoding \notin { "cp1252", "latin-1" } \/ Len(decoded_str) <= 3 THEN FALSE
  ELSE LET high_latin == Count(decoded_str, is_high_latin)
           spaces == Count(decoded_str, is_space)
       IN  2 * high_latin > Len(decoded_str) \/ 10 * spaces < Len(decoded_str)

is_likely_misencoded_asian_text(decoded_str, encoding) ==
  IF encoding \notin { "cp1252", "latin-1" } \/ Len(decoded_str) <= 3 THEN FALSE
  ELSE LET high_latin == Count(decoded_str, is_high_latin)
           spaces == Count(decoded_str, is_space)
       IN  2 * high_latin > Len(decoded_str) /\ 10 * spaces < Len(decoded_str)

\* 0xFF61 <= ord(c) <= 0xFF9F
is_half_width_katakana(c) == \hFF61 <= c /\ c <= \hFF9F

is_ascii(c) == c < 128

\* 0x4E00 <= ord(c) <= 0x9FFF
is_cjk(c) == \h4E00 <= c /\ c <= \h9FFF

\* c.isalpha() and ord(c) < 128
is_ascii_letter(c) == (\h41 <= c /\ c <= \h5A) \/ (\h61 <= c /\ c <= \h7A)

\* variant: one ASCII letter suffices (ascii_letters >= 1)
is_likely_misencoded_cross_asian_any_letter(decoded_str, encoding) ==
  IF Len(decoded_str) <= 3 THEN FALSE
  ELSE IF encoding = "shift_jis"
          /\ 10 * Count(decoded_str, is_half_width_katakana) > 3 * Len(decoded_str)
    THEN TRUE
  ELSE IF encoding \in { "big5", "gbk", "gb2312", "shift_jis", "euc-kr" }
    THEN LET ascii_chars == Count(decoded_str, is_ascii)
             cjk_chars == Count(decoded_str, is_cjk)
             ascii_letters == Count(decoded_str, is_ascii_letter)
         IN  /\ ascii_chars > 0 /\ cjk_chars > 0
             /\ ascii_letters >= 1 /\ 2 * cjk_chars < Len(decoded_str)
  ELSE FALSE

is_likely_misencoded_cross_asian(decoded_str, encoding) ==
  IF Len(decoded_str) <= 3 THEN FALSE
  ELSE IF encoding = "shift_jis"
          /\ 10 * Count(decoded_str, is_half_width_katakana) > 3 * Len(decoded_str)
    THEN TRUE
  ELSE IF encoding \in { "big5", "gbk", "gb2312", "shift_jis", "euc-kr" }
    THEN LET ascii_chars == Count(decoded_str, is_ascii)
             cjk_chars == Count(decoded_str, is_cjk)
             ascii_letters == Count(decoded_str, is_ascii_letter)
         IN  /\ ascii_chars > 0 /\ cjk_chars > 0
             /\ ascii_letters >= 2 /\ 2 * cjk_chars < Len(decoded_str)
  ELSE FALSE

(***************************************************************************)
(* decode_with_fallback.                                                   *)
(***************************************************************************)
\* variant: the order with gbk and gb2312 ahead of the other multi-byte encodings
common_encodings_gbk_first ==
  << "gbk", "gb2312", "shift_jis", "euc-kr", "big5", "cp1251", "iso-8859-2", "cp1252",
     "latin-1" >>

\* variant: the order with cp1252 and latin-1 ahead of iso-8859-2
common_encodings_western_first ==
  << "shift_jis", "euc-kr", "big5", "gbk", "gb2312", "cp1251", "cp1252", "latin-1",
     "iso-8859-2" >>

common_encodings ==
  << "shift_jis", "euc-kr", "big5", "gbk", "gb2312", "cp1251", "iso-8859-2", "cp1252",
     "latin-1" >>

\* a returned string, and the returned None
Str(s) == [kind |-> "str", val |-> s]
None == [kind |-> "None", val |-> <<>>]

\* what content_bytes.decode(encoding) raises under registry kn ("none": it returns)
\* (the empty buffer decodes to the empty string before the codec is looked up)
decode_raises(b, encoding, kn) ==
  IF b = <<>> THEN "none"
  ELSE IF encoding \notin kn THEN "LookupError"
  ELSE IF ~bytes_decode(b, encoding).ok THEN "UnicodeDecodeError"
  ELSE "none"

\* variant: the utf-8 attempt catching AttributeError only
utf8_except_attribute_only(exc) == exc = "AttributeError"

\* except (UnicodeDecodeError, AttributeError): pass
utf8_except(exc) == exc \in { "UnicodeDecodeError", "AttributeError" }

\* variant: the loop catching UnicodeDecodeError only
loop_except_decode_only(exc) == exc = "UnicodeDecodeError"

\* except (UnicodeDecodeError, LookupError): continue
loop_except(exc) == exc \in { "UnicodeDecodeError", "LookupError" }

\* variant: the loop without the cross-Asian check
loop_checks_no_cross(d, encoding) ==
  /\ is_likely_text(d)
  /\ ~is_likely_misencoded_asian_text(d, encoding)

\* the three checks of one loop iteration; TRUE: the iteration reaches `return decoded`
loop_checks(d, encoding) ==
  /\ is_likely_text(d)
  /\ ~is_likely_misencoded_asian_text(d, encoding)
  /\ ~is_likely_misencoded_cross_asian(d, encoding)

RECURSIVE loop_from(_, _, _)
\* the for loop from position i of common_encodings on, and the final return None
loop_from(b, i, kn) ==
  IF i > Len(common_encodings) THEN None
  ELSE LET encoding == common_encodings[i]
       IN  IF decode_raises(b, encoding, kn) # "none" THEN loop_from(b, i + 1, kn)
           ELSE IF loop_checks(bytes_decode(b, encoding).str, encoding)
             THEN Str(bytes_decode(b, encoding).str)
           ELSE loop_from(b, i + 1, kn)

\* the function as a whole, run alone on buffer b under registry kn
decode_with_fallback(b, kn) ==
  IF bytes_decode(b, "utf-8").ok /\ is_likely_text(bytes_decode(b, "utf-8").str)
    THEN Str(bytes_decode(b, "utf-8").str)
    ELSE loop_from(b, 1, kn)

(***************************************************************************)
(* The runtime and the test cases.                                         *)
(***************************************************************************)
AllEncodings ==
  { "utf-8", "shift_jis", "euc-kr", "big5", "gbk", "gb2312", "cp1251", "iso-8859-2",
    "cp1252", "latin-1" }

\* The registries a CPython build can have: the East Asian codecs are optional
\* extension modules (_codecs_jp, _codecs_cn), the others are always there.
RuntimeRegistries ==
  { AllEncodings, AllEncodings \ { "shift_jis" }, AllEncodings \ { "gbk", "gb2312" } }

\* test_decode_with_fallback_various_encodings: (text, encoding)
various_encodings ==
  { << << \h48, \h65, \h6C, \h6C, \h6F, \h2C, \h20, \h57, \h6F, \h72, \h6C, \h64, \h21 >>,
       "utf-8" >>,
    << << \h57, \h69, \h6E, \h64, \h6F, \h77, \h73, \h2122, \h20, \h74, \h65, \h78, \h74 >>,
       "cp1252" >>,
    << << \h3053, \h3093, \h306B, \h3061, \h306F, \h4E16, \h754C >>, "shift_jis" >>,
    << << \hC548, \hB155, \hD558, \hC138, \hC694 >>, "euc-kr" >>,
    << << \h7E41, \h9AD4, \h4E2D, \h6587 >>, "big5" >>,
    << << \h041F, \h0440, \h0438, \h0432, \h0435, \h0442, \h20, \h043C, \h0438, \h0440 >>,
       "cp1251" >> }

\* test_decode_with_fallback_misdetected_encodings: (text, encoding)
misdetected_encodings ==
  { << << \h4F60, \h597D, \h4E16, \h754C >>, "gbk" >>,
    << << \h4E2D, \h6587, \h6D4B, \h8BD5 >>, "gb2312" >>,
    << << \h48, \hE9, \h6C, \h6C, \h6F, \h20, \h57, \hF6, \h72, \h6C, \h64 >>,
       "iso-8859-1" >>,
    << << \h43, \h7A, \h65, \h015B, \h0107, \h20, \h015B, \h77, \h69, \h61, \h74 >>,
       "iso-8859-2" >> }

\* test_decode_with_fallback_binary: binary_data
binary_data ==
  { << \hFF, \hFE, \h00, \h00, \h01, \h02, \h03 >>,
    << \h00, \h00, \h00, \h00, \h00, \h00, \h00, \h00, \h00, \h00 >>,
    << \h01, \h02, \h03, \h04, \h05 >>,
    << \hFF, \hD8, \hFF, \hE0, \h00, \h10 >> }

\* the sequences over S of length at most n
SeqsUpTo(S, n) == UNION { [1..k -> S] : k \in 0..n }

\* bytes of the exhaustively drawn raw buffers, code points of the exhaustively drawn texts
CoreBytes == { \h00, \h09, \h20, \h41, \h98, \hA9, \hB1, \hC3, \hE9, \hFF }
CoreCodePoints == { \h00, \h09, \h41, \hE9, \h5C71, \h18618 }

\* a test case: the text and encoding the buffer comes from (or none), and the buffer
TextCase(s, encoding) ==
  [given |-> TRUE, str |-> s, encoding |-> encoding, content |-> str_encode(s, encoding)]
RawCase(b) == [given |-> FALSE, str |-> <<>>, encoding |-> "none", content |-> b]

TestCases ==
  { TextCase(c[1], c[2]) : c \in various_encodings \cup misdetected_encodings }
  \cup { TextCase(s, "utf-8") : s \in SeqsUpTo(CoreCodePoints, MaxTextLen) }
  \cup { RawCase(b) : b \in binary_data \cup SeqsUpTo(CoreBytes, MaxLen) }

\* the buffers of the concurrent calls
ConcBuffers == { <<>>, << \h41 >>, << \hE9 >>, << \h00 >> }

(***************************************************************************)
(* The calls, step by step.                                                *)
(***************************************************************************)
Calls == DOMAIN pc

\* variant: one frame shared by all calls (`decoded` as a module-level variable)
frame_shared(p) == 1

\* the frame holding call p's local variables: each call has its own
frame(p) == p

Goto(p, l) == pc' = [pc EXCEPT ![p] = l]
Attempt(p, encoding) == attempted' = [attempted EXCEPT ![p] = Append(@, encoding)]

\* try: decoded = content_bytes.decode("utf-8")
TryUtf8(p) ==
  /\ pc[p] = "utf8"
  /\ Attempt(p, "utf-8")
  /\ LET exc == decode_raises(content_bytes[p], "utf-8", known)
     IN  IF exc = "none"
           THEN /\ decoded' = [decoded EXCEPT
                                 ![frame(p)] = bytes_decode(content_bytes[p], "utf-8").str]
                /\ Goto(p, "utf8_check")
           ELSE /\ Goto(p, IF utf8_except(exc) THEN "loop" ELSE "raised")
                /\ UNCHANGED decoded
  /\ UNCHANGED << known, text, text_encoding, content_bytes, idx, result, hstr, henc, hout >>

\* if _is_likely_text(decoded): return decoded
CheckUtf8(p) ==
  /\ pc[p] = "utf8_check"
  /\ IF is_likely_text(decoded[frame(p)])
       THEN /\ result' = [result EXCEPT ![p] = Str(decoded[frame(p)])]
            /\ Goto(p, "done")
       ELSE /\ Goto(p, "loop")
            /\ UNCHANGED result
  /\ UNCHANGED << known, text, text_encoding, content_bytes, idx, decoded, attempted,
                  hstr, henc, hout >>

\* for encoding in common_encodings: try: decoded = content_bytes.decode(encoding)
LoopDecode(p) ==
  /\ pc[p] = "loop"
  /\ idx[p] <= Len(common_encodings)
  /\ LET encoding == common_encodings[idx[p]]
         exc == decode_raises(content_bytes[p], encoding, known)
     IN  /\ Attempt(p, encoding)
         /\ IF exc = "none"
              THEN /\ decoded' = [decoded EXCEPT
                                    ![frame(p)] = bytes_decode(content_bytes[p], encoding).str]
                   /\ Goto(p, "check")
                   /\ UNCHANGED idx
              ELSE /\ IF loop_except(exc)
                        THEN /\ idx' = [idx EXCEPT ![p] = @ + 1]
                             /\ UNCHANGED pc
                        ELSE /\ Goto(p, "raised")
                             /\ UNCHANGED idx
                   /\ UNCHANGED decoded
  /\ UNCHANGED << known, text, text_encoding, content_bytes, result, hstr, henc, hout >>

\* the three `continue` checks, then return decoded
LoopCheck(p) ==
  /\ pc[p] = "check"
  /\ IF loop_checks(decoded[frame(p)], common_encodings[idx[p]])
       THEN /\ result' = [result EXCEPT ![p] = Str(decoded[frame(p)])]
            /\ Goto(p, "done")
            /\ UNCHANGED idx
       ELSE /\ idx' = [idx EXCEPT ![p] = @ + 1]
            /\ Goto(p, "loop")
            /\ UNCHANGED result
  /\ UNCHANGED << known, text, text_encoding, content_bytes, decoded, attempted,
                  hstr, henc, hout >>

\* return None
ReturnNone(p) ==
  /\ pc[p] = "loop"
  /\ idx[p] > Len(common_encodings)
  /\ result' = [result EXCEPT ![p] = None]
  /\ Goto(p, "done")
  /\ UNCHANGED << known, text, text_encoding, content_bytes, idx, decoded, attempted,
                  hstr, henc, hout >>

NotApplied == [applied |-> FALSE, likely_text |-> FALSE, asian |-> FALSE, cross |-> FALSE]

\* n calls on entry
Entry(n) ==
  /\ pc = [p \in 1..n |-> "utf8"]
  /\ idx = [p \in 1..n |-> 1]
  /\ decoded = [p \in 1..n |-> <<>>]
  /\ result = [p \in 1..n |-> None]
  /\ attempted = [p \in 1..n |-> <<>>]

\* one call under some registry, on the buffer of one test case:
\* content = text.encode(encoding), or binary_data
Init ==
  /\ known \in RuntimeRegistries
  /\ \E c \in TestCases :
       /\ text = << [given |-> c.given, str |-> c.str] >>
       /\ text_encoding = << c.encoding >>
       /\ content_bytes = << c.content >>
  /\ Entry(1)
  /\ hstr = <<>> /\ henc = "utf-8" /\ hout = NotApplied

Next ==
  \/ \E p \in Calls : TryUtf8(p)
  \/ \E p \in Calls : CheckUtf8(p)
  \/ \E p \in Calls : LoopDecode(p)
  \/ \E p \in Calls : LoopCheck(p)
  \/ \E p \in Calls : ReturnNone(p)

Spec == Init /\ [][Next]_vars

\* a call runs to its return: nothing suspends or blocks it
FairSpec == Spec /\ WF_vars(Next)

\* NCallers concurrent calls, each on a buffer of its own
InitConc ==
  /\ known = AllEncodings
  /\ content_bytes \in [1..NCallers -> ConcBuffers]
  /\ text = [p \in 1..NCallers |-> [given |-> FALSE, str |-> <<>>]]
  /\ text_encoding = [p \in 1..NCallers |-> "none"]
  /\ Entry(NCallers)
  /\ hstr = <<>> /\ henc = "utf-8" /\ hout = NotApplied

SpecConc == InitConc /\ [][Next]_vars

(***************************************************************************)
(* The heuristics applied to strings of their own (SpecHeur): up to three  *)
(* runs of code points around the boundaries the heuristics test.          *)
(***************************************************************************)
HeurCodePoints ==
  { \h00, \h09, \h1F, \h20, \h31, \h41, \h7A, \h7B, \h7F, \h80, \h024F, \h0250, \h4DFF,
    \h4E00, \h9FFF, \hA000, \hFEFF, \hFF60, \hFF61, \hFF9F, \hFFA0 }
HeurSeconds == { \h0A, \h20, \h31, \h41, \h9FFF }
HeurEncodings == AllEncodings \cup { "ascii" }

\* n times the code point c
Rep(c, n) == [i \in 1..n |-> c]

HeurStrings ==
  { Rep(c1, n1) \o Rep(c2, n2) \o Rep(\h61, n3) :
      c1 \in HeurCodePoints, c2 \in HeurSeconds, n1 \in 0..MaxRun, n2 \in 0..2,
      n3 \in 0..MaxRun }

InitHeur ==
  /\ known = AllEncodings
  /\ text = <<>> /\ text_encoding = <<>> /\ content_bytes = <<>>
  /\ Entry(0)
  /\ hstr \in HeurStrings
  /\ henc \in HeurEncodings
  /\ hout = NotApplied

\* call the three heuristics on (hstr, henc)
ApplyHeuristics ==
  /\ ~hout.applied
  /\ hout' = [applied |-> TRUE,
              likely_text |-> is_likely_text(hstr),
              asian |-> is_likely_misencoded_asian_text(hstr, henc),
              cross |-> is_likely_misencoded_cross_asian(hstr, henc)]
  /\ UNCHANGED << callvars, hstr, henc >>

NextHeur == ApplyHeuristics

SpecHeur == InitHeur /\ [][NextHeur]_vars

(***************************************************************************)
(* The claims.                                                             *)
(***************************************************************************)
\* the ten candidates in their documented order
AllCandidates ==
  << "utf-8", "shift_jis", "euc-kr", "big5", "gbk", "gb2312", "cp1251", "iso-8859-2",
     "cp1252", "latin-1" >>
AsianSet == { "big5", "gbk", "gb2312", "shift_jis", "euc-kr" }
WesternPair == { "cp1252", "latin-1" }

IsPrefix(s, t) == Len(s) <= Len(t) /\ \A i \in 1..Len(s) : s[i] = t[i]
Last(s) == s[Len(s)]
Done(p) == pc[p] = "done"

\* number of positions of s holding a value of set S
NumIn(s, S) == Cardinality({ i \in 1..Len(s) : s[i] \in S })
\* number of positions of s holding a value within lo..hi
NumWithin(s, lo, hi) == Cardinality({ i \in 1..Len(s) : lo <= s[i] /\ s[i] <= hi })
ControlPoints == (0..31) \ { 9, 10, 13 }

\* the mismatch heuristic applicable to an encoding flags the string
Flagged(e, s) ==
  IF e \in WesternPair THEN is_likely_misencoded_asian_text(s, e)
  ELSE IF e \in AsianSet THEN is_likely_misencoded_cross_asian(s, e)
  ELSE FALSE

\* candidate e is accepted for buffer b: it decodes, is plausible, and is not flagged
AcceptedBy(e, b) ==
  /\ decode_raises(b, e, known) = "none"
  /\ is_likely_text(bytes_decode(b, e).str)
  /\ ~Flagged(e, bytes_decode(b, e).str)

\* C1: the candidates are attempted one at a time in the fixed order, each at most once;
\* a returned string is the decoding of the first accepted candidate, which is the last
\* one attempted; the empty buffer is accepted by the utf-8 attempt as the empty string.
C1_FirstAccepted ==
  \A p \in Calls :
    /\ IsPrefix(attempted[p], AllCandidates)
    /\ (Done(p) /\ result[p].kind = "str") =>
         /\ Len(attempted[p]) >= 1
         /\ AcceptedBy(Last(attempted[p]), content_bytes[p])
         /\ result[p].val = bytes_decode(content_bytes[p], Last(attempted[p])).str
         /\ \A j \in 1..(Len(attempted[p]) - 1) :
              ~AcceptedBy(attempted[p][j], content_bytes[p])
    /\ (Done(p) /\ content_bytes[p] = <<>>) =>
         (result[p] = Str(<<>>) /\ attempted[p] = << "utf-8" >>)

\* a call returned the shift_jis decoding after rejecting utf-8 (or: a later candidate)
C1_Witness ==
  \E p \in Calls :
    /\ Done(p) /\ result[p].kind = "str"
    /\ Len(attempted[p]) >= 3
    /\ Len(result[p].val) > 3
    /\ \E j \in 2..(Len(attempted[p]) - 1) :
         /\ attempted[p][j] \in known
         /\ bytes_decode(content_bytes[p], attempted[p][j]).ok
         /\ is_likely_text(bytes_decode(content_bytes[p], attempted[p][j]).str)

\* C2: a call never raises and ends by returning a string or None; it returns None
\* exactly when all ten candidates were attempted and each failed to decode or was rejected.
C2_Returns ==
  \A p \in Calls :
    /\ pc[p] # "raised"
    /\ Done(p) => result[p].kind \in { "str", "None" }
    /\ Done(p) =>
         ((result[p] = None) <=>
            /\ attempted[p] = AllCandidates
            /\ \A e \in AllEncodings : ~AcceptedBy(e, content_bytes[p]))

C2_NeverRaises == []C2_Returns /\ <>(\A p \in Calls : Done(p))

\* a call returned None although an unknown encoding name and an undecodable buffer
\* were met on the way
C2_Witness ==
  \E p \in Calls :
    /\ Done(p) /\ result[p] = None
    /\ \E e \in AllEncodings : e \notin known
    /\ \E e \in known : ~bytes_decode(content_bytes[p], e).ok
    /\ \E e \in known : bytes_decode(content_bytes[p], e).ok

\* at least 70% of the code points of s are control code points
MostlyControl(s) == 10 * NumIn(s, ControlPoints) >= 7 * Len(s)

\* C3: a non-empty buffer whose decoding under every candidate that can decode it is at
\* least 70% control code points returns None; so do the four binary buffers of the tests.
C3_BinaryIsNone ==
  \A p \in Calls :
    Done(p) =>
      /\ (/\ content_bytes[p] # <<>>
          /\ \A e \in known :
               bytes_decode(content_bytes[p], e).ok
                 => MostlyControl(bytes_decode(content_bytes[p], e).str))
           => result[p] = None
      /\ content_bytes[p] \in binary_data => result[p] = None

\* the buffer FF FE 00 00 01 02 03 was returned as None
C3_Witness ==
  \E p \in Calls :
    /\ Done(p) /\ result[p] = None
    /\ content_bytes[p] = << \hFF, \hFE, \h00, \h00, \h01, \h02, \h03 >>
    /\ \E e \in known : bytes_decode(content_bytes[p], e).ok

\* the test case of call p is a documented round-trip case, its encoding known to the runtime
RoundTripCase(p) ==
  /\ text[p].given
  /\ text_encoding[p] \in known
  /\ \/ text_encoding[p] = "utf-8"
     \/ << text[p].str, text_encoding[p] >> \in various_encodings

\* C4 as claimed: every UTF-8 text, whatever its content, and every documented text
\* comes back from decode_with_fallback(text.encode(encoding)).
C4_Original ==
  \A p \in Calls :
    (Done(p) /\ RoundTripCase(p)) => result[p] = Str(text[p].str)

\* C4 amended: a UTF-8 text comes back exactly when it is empty or at most 30% of its
\* code points are control code points (any other UTF-8 text is returned as None or as
\* another candidate's decoding of its bytes); the documented texts come back.
C4_RoundTrip ==
  \A p \in Calls :
    (Done(p) /\ RoundTripCase(p)) =>
      IF 10 * NumIn(text[p].str, ControlPoints) <= 3 * Len(text[p].str)
        THEN result[p] = Str(text[p].str)
        ELSE text_encoding[p] = "utf-8" /\ result[p] # Str(text[p].str)

\* the Shift-JIS text of the tests came back
C4_Witness ==
  \E p \in Calls :
    /\ Done(p) /\ text[p].given /\ text_encoding[p] = "shift_jis"
    /\ content_bytes[p] = str_encode(text[p].str, "shift_jis")
    /\ result[p] = Str(text[p].str)

\* C5: under any interleaving each call returns what decode_with_fallback returns when
\* run alone on its buffer; two calls on the same buffer return equal results.
C5_Isolated ==
  \A p \in Calls :
    Done(p) =>
      /\ result[p] = decode_with_fallback(content_bytes[p], known)
      /\ \A q \in Calls :
           (Done(q) /\ content_bytes[q] = content_bytes[p]) => result[q] = result[p]

\* two calls in flight at once on different buffers: one has decoded and not yet checked,
\* the other has returned a different string
C5_Witness ==
  \E p, q \in Calls :
    /\ p # q
    /\ pc[p] = "check" /\ Done(q) /\ result[q].kind = "str"
    /\ decoded[frame(p)] # result[q].val
    /\ Len(attempted[q]) > 1

\* C6 as claimed: no encoding name unknown to the runtime is met at call time.
C6_Original ==
  \A p \in Calls : \A k \in 1..Len(attempted[p]) : attempted[p][k] \in known

\* C6 amended: nothing validates the candidate list before the calls; an unknown name is
\* met inside decode_with_fallback, where the loop's except clause catches the LookupError
\* and the sweep moves on to the next candidate: the call does not raise, the unknown
\* candidate is never the accepted one, and the call returns what the known candidates give.
C6_UnknownSkipped ==
  \A p \in Calls :
    /\ pc[p] # "raised"
    /\ \A k \in 1..Len(attempted[p]) :
         attempted[p][k] \notin known =>
           /\ idx[p] >= k
           /\ (k = Len(attempted[p]) => pc[p] \in { "loop", "done" })
           /\ (Done(p) /\ result[p].kind = "str") => k < Len(attempted[p])

\* the loop has just skipped a candidate the runtime does not know
C6_Witness ==
  \E p \in Calls :
    /\ pc[p] = "loop"
    /\ Len(attempted[p]) >= 2
    /\ Last(attempted[p]) \notin known
    /\ idx[p] = Len(attempted[p])

\* C7: _is_likely_text is true of the empty string and otherwise true exactly when
\* 10 * (control code points) <= 3 * length.
C7_LikelyText ==
  hout.applied =>
    (hout.likely_text <=>
       (Len(hstr) = 0 \/ 10 * NumIn(hstr, ControlPoints) <= 3 * Len(hstr)))

\* a string of ten code points, three of them control code points, passes
C7_Witness ==
  /\ hout.applied /\ hout.likely_text
  /\ Len(hstr) = 10 /\ NumIn(hstr, ControlPoints) = 3

\* pattern A: shift_jis and more than 30% half-width katakana
PatternA(s, e) == e = "shift_jis" /\ 10 * NumWithin(s, \hFF61, \hFF9F) > 3 * Len(s)
\* pattern B: ASCII and CJK both present, two ASCII letters or more, CJK below half
PatternB(s, e) ==
  /\ NumWithin(s, 0, 127) >= 1
  /\ NumWithin(s, \h4E00, \h9FFF) >= 1
  /\ NumWithin(s, \h41, \h5A) + NumWithin(s, \h61, \h7A) >= 2
  /\ 2 * NumWithin(s, \h4E00, \h9FFF) < Len(s)

\* C8: _is_likely_misencoded_cross_asian is false for length <= 3 and outside the five
\* Asian encodings, and otherwise true exactly when pattern A or pattern B holds.
C8_CrossAsian ==
  hout.applied =>
    (hout.cross <=>
       /\ Len(hstr) > 3
       /\ henc \in AsianSet
       /\ (PatternA(hstr, henc) \/ PatternB(hstr, henc)))

\* a shift_jis string flagged by pattern B alone
C8_Witness ==
  /\ hout.applied /\ hout.cross
  /\ henc = "shift_jis" /\ ~PatternA(hstr, henc)
  /\ NumWithin(hstr, \h41, \h5A) + NumWithin(hstr, \h61, \h7A) = 2

\* C9: _is_likely_misencoded_asian_text is true exactly for cp1252 or latin-1, length above
\* 3, more than half the code points in 0x0080..0x024F and fewer than a tenth spaces.
C9_WesternAsian ==
  hout.applied =>
    (hout.asian <=>
       /\ henc \in WesternPair
       /\ Len(hstr) > 3
       /\ 2 * NumWithin(hstr, \h80, \h024F) > Len(hstr)
       /\ 10 * NumIn(hstr, { \h20 }) < Len(hstr))

\* a latin-1 string with one space in more than ten code points is flagged
C9_Witness ==
  /\ hout.applied /\ hout.asian
  /\ henc = "latin-1" /\ NumIn(hstr, { \h20 }) = 1

\* C10: cp1252 and latin-1 never accept: a returned string comes from one of the first
\* eight candidates; when the loop reaches its checks for cp1252 or latin-1 the decoded
\* string has more than 30% control code points, so the Western heuristic decides nothing;
\* None is returned only for buffers with more than 30% control bytes.
C10_WesternNeverAccepts ==
  \A p \in Calls :
    /\ (Done(p) /\ result[p].kind = "str") => Last(attempted[p]) \notin WesternPair
    /\ (pc[p] = "check" /\ Last(attempted[p]) \in WesternPair) =>
         10 * NumIn(decoded[frame(p)], ControlPoints) > 3 * Len(decoded[frame(p)])
    /\ (Done(p) /\ result[p] = None) =>
         10 * NumIn(content_bytes[p], ControlPoints) > 3 * Len(content_bytes[p])

\* the loop decoded a buffer of more than three bytes as cp1252 and is about to check it
C10_Witness ==
  \E p \in Calls :
    /\ pc[p] = "check" /\ Last(attempted[p]) = "cp1252"
    /\ Len(decoded[frame(p)]) > 3
    /\ 2 * NumWithin(decoded[frame(p)], \h80, \h024F) > Len(decoded[frame(p)])
====
